---------------------------- MODULE Spec2Model ----------------------------
(***************************************************************************)
(* A model of the Axelar Interchain Token Service dashboard pages.         *)
(*                                                                         *)
(* Every page is a script that Streamlit runs top to bottom on each user   *)
(* interaction: fetch (HTTP analytics API or SQL view), normalise,         *)
(* aggregate, render.  A page run is modelled as a state machine whose     *)
(* program counter pc walks through the script; the frames the script      *)
(* builds are the state.  The backends' answers are the inputs.            *)
(*                                                                         *)
(*   SpecTransfers        pages/1_Interchain_Transfers.py (GMPChart block) *)
(*   SpecTokenMonitoring  pages/3_ITS_Token_Monitoring.py                  *)
(*   SpecMonitoringAPI    pages/4_Monitoring_ITS_Tokens.py (GMPChart load) *)
(*   SpecMonitoringSQL    pages/4_Monitoring_ITS_Tokens.py (timeseries)    *)
(*   SpecFetchWindow      the fromTime/toTime window of the HTTP loaders   *)
(*   SpecTransferFees     pages/1_Interchain_Transfers.py (fees over time) *)
(*   SpecCache            the loaders memoized with st.cache_data          *)
(*   SpecPayload          the shapes of the GMPChart answer a loader reads *)
(*   SpecSessions         two sessions running the memoized loaders        *)
(*   SpecUsers            new / returning users and deployers over time    *)
(*   SpecTokens           pages/4_test.py (ITS tokens table, top-10 charts)*)
(*                                                                         *)
(* Numbers.  TLC's integers are 32 bits wide while the timestamps of the   *)
(* code reach 1e18, so a number is kept as a pair [m, e] that stands for   *)
(* m * 1000^e exactly; comparisons and unit conversions are computed on    *)
(* the pair without loss.  A nullable cell is a record tagged by k.        *)
(***************************************************************************)
EXTENDS Integers, Sequences, FiniteSets, TLC

VARIABLES
    pc,            \* position of the page run in its script
    timeframe,     \* the "Select Time Frame" widget
    start_date,    \* the "Start Date" widget, a day number since 1970-01-01
    end_date,      \* the "End Date" widget
    raised,        \* the exception that escaped the page run, or "none"
    messages,      \* what st.error / st.warning have shown in this run
    responses,     \* the backend answers received so far in this run
    dfs,           \* page 1: list of per-endpoint frames
    df_all,        \* page 1: concatenated, date-filtered frame
    agg_df,        \* page 1: per-period aggregate with cumulative columns
    raw,           \* page 3: the frame fetch_gmp_data returned
    df,            \* pages 3 and 4: the normalised frame
    period_agg,    \* page 3: aggregate per period
    period_path,   \* page 3: aggregate per period and path
    path_group,    \* page 3: aggregate per path
    user_group,    \* page 3: aggregate per sender
    timestamp_col, \* page 4: what parse_timestamp_col returned, row by row
    ts_dtype,      \* page 4: dtype of df["timestamp"], "datetime64" or "object"
    df_agg,        \* page 4: aggregate_by_timeframe(df), later the per-date totals
    fact,          \* page 4: the rows of axelar.axelscan.fact_gmp for the token
    df_timeseries, \* page 4: load_transfer_timeseries(...)
    df_norm,       \* page 4: df_timeseries with its total and share columns
    backend,       \* fetch window: the instants (epoch seconds) of the provider's records
    tz_offset,     \* fetch window: offset of the server's local time from UTC, in seconds
    request,       \* fetch window: the loader that ran with its fromTime and toTime
    fetched,       \* fetch window: the records the provider returned
    fact_fees,     \* page 1: the rows of fact_gmp the fee query reads
    df_interchain_fees_data,   \* page 1: load_interchain_fees_data(...)
    cache,         \* st.cache_data: stored results by function and arguments
    now,           \* st.cache_data: the clock, in seconds
    round_trips,   \* st.cache_data: number of network or SQL round trips so far
    returned,      \* st.cache_data: the last call and what it got
    payload,       \* payload shapes: the JSON body the provider answered with
    loaded,        \* payload shapes: the loader that read it and what it made of it
    session,       \* sessions: the session whose page run made the last call
    owner,         \* sessions: for each stored entry, the session whose run stored it
    fact_users,    \* users over time: the rows of fact_gmp that pass the WHERE filters
    df_interchain_users_data,  \* page 1: load_interchain_users_data(...)
    df_deployers_overtime,     \* deployments page: load_deployers_overtime(...)
    tx_data,       \* ITS tokens: the rows GMPTopITSAssets answered with
    assets_data,   \* ITS tokens: the assets getITSAssets answered with
    df_tokens,     \* ITS tokens: the frame load_data returned
    top_volume,    \* ITS tokens: the rows of the top-10 chart by volume
    top_transfers  \* ITS tokens: the rows of the top-10 chart by transfers

varsCommon == <<pc, timeframe, start_date, end_date, raised, messages, responses>>
varsTransfers == <<dfs, df_all, agg_df>>
varsTokenMonitoring == <<raw, period_agg, period_path, path_group, user_group>>
varsFrame == <<df>>
varsMonitoringAPI == <<timestamp_col, ts_dtype>>
varsMonitoringSQL == <<fact, df_timeseries, df_norm>>
varsAgg == <<df_agg>>
varsFetchWindow == <<backend, tz_offset, request, fetched>>
varsTransferFees == <<fact_fees, df_interchain_fees_data>>
varsCache == <<cache, now, round_trips, returned>>
varsPages == <<varsTransfers, varsTokenMonitoring, varsFrame,
               varsMonitoringAPI, varsMonitoringSQL, varsAgg>>
varsPayload == <<payload, loaded>>
varsSessions == <<session, owner>>
varsUsers == <<fact_users, df_interchain_users_data, df_deployers_overtime>>
varsTokens == <<tx_data, assets_data, df_tokens, top_volume, top_transfers>>
varsLate == <<varsPayload, varsSessions, varsUsers, varsTokens>>
varsOld == <<varsPages, varsFetchWindow, varsTransferFees, varsCache>>
vars == <<varsCommon, varsOld, varsLate>>
varsNotTransfers == <<varsTokenMonitoring, varsFrame, varsMonitoringAPI, varsMonitoringSQL, varsAgg,
                      varsFetchWindow, varsTransferFees, varsCache, varsLate>>
varsNotTokenMonitoring == <<varsTransfers, varsMonitoringAPI, varsMonitoringSQL, varsAgg,
                            varsFetchWindow, varsTransferFees, varsCache, varsLate>>
varsNotMonitoringAPI == <<varsTransfers, varsTokenMonitoring, varsMonitoringSQL,
                          varsFetchWindow, varsTransferFees, varsCache, varsLate>>
varsNotMonitoringSQL == <<varsTransfers, varsTokenMonitoring, varsFrame, varsMonitoringAPI,
                          varsFetchWindow, varsTransferFees, varsCache, varsLate>>
varsNotFetchWindow == <<varsPages, varsTransferFees, varsCache, varsLate>>
varsNotTransferFees == <<varsPages, varsFetchWindow, varsCache, varsLate>>
varsNotCache == <<varsPages, varsFetchWindow, varsTransferFees, varsLate>>
varsNotPayload == <<varsOld, varsSessions, varsUsers, varsTokens>>
varsNotSessions == <<varsPages, varsFetchWindow, varsTransferFees, varsPayload, varsUsers, varsTokens>>
varsNotUsers == <<varsOld, varsPayload, varsSessions, varsTokens>>
varsNotTokens == <<varsOld, varsPayload, varsSessions, varsUsers>>

(***************************************************************************)
(* Bounds of the model.                                                    *)
(***************************************************************************)
MaxRows == 2       \* records in one backend answer

(***************************************************************************)
(* Numbers m * 1000^e and datetime64[ns] instants.                         *)
(***************************************************************************)
Num(m, e) == [m |-> m, e |-> e]

Pow1000(k) ==
    IF k = 0 THEN 1 ELSE IF k = 1 THEN 1000 ELSE IF k = 2 THEN 1000000 ELSE 1000000000

\* floor(m / 1000^d); 1000^d exceeds every m once d > 3
DivPow(m, d) == IF d > 3 THEN 0 ELSE m \div Pow1000(d)

\* a < b for a = a.m * 1000^a.e and b = b.m * 1000^b.e
NumLess(a, b) ==
    IF a.e = b.e THEN a.m < b.m
    ELSE IF a.e < b.e THEN DivPow(a.m, b.e - a.e) < b.m
    ELSE b.m >= 1 /\ a.m <= DivPow(b.m - 1, a.e - b.e)

\* v > 1000^p, the comparisons "maxv > 1e9 ... 1e18" of the code
Exceeds(v, p) == NumLess(Num(1, p), v)

RECURSIVE Normalise(_, _)
Normalise(m, e) ==
    IF m = 0 THEN Num(0, 0)
    ELSE IF m % 1000 = 0 THEN Normalise(m \div 1000, e + 1)
    ELSE Num(m, e)

NaT == [m |-> -1, e |-> -1]

\* m * 1000^e nanoseconds fits datetime64[ns] (at most 9223372036854775807)
InBounds(m, e) ==
    IF e <= 3 THEN TRUE
    ELSE IF e = 4 THEN m <= 9223372
    ELSE IF e = 5 THEN m <= 9223
    ELSE IF e = 6 THEN m <= 9
    ELSE m = 0

\* nanoseconds per unit, as a power of 1000
UnitExp(unit) ==
    IF unit = "s" THEN 3 ELSE IF unit = "ms" THEN 2 ELSE IF unit = "us" THEN 1 ELSE 0

\* pd.to_datetime(v, unit=unit, errors='coerce'): the instant, in nanoseconds
to_datetime(v, unit) ==
    IF InBounds(v.m, v.e + UnitExp(unit))
    THEN Normalise(v.m, v.e + UnitExp(unit))
    ELSE NaT

\* whole seconds since the epoch of an instant
EpochSeconds(ts) ==
    IF ts.e >= 3 THEN ts.m * Pow1000(ts.e - 3) ELSE DivPow(ts.m, 3 - ts.e)

SecondsPerDay == 24 * 60 * 60

\* .dt.date: the calendar day, as a day number since 1970-01-01
DateOf(ts) == EpochSeconds(ts) \div SecondsPerDay

\* midnight of a day number, as an instant
Midnight(day) == Normalise(day * SecondsPerDay, 3)

\* to_period("W").start_time: weeks run Monday to Sunday; 1970-01-01 was a Thursday
WeekStart(day) == day - ((day + 3) % 7)

\* to_period("M").start_time: the first day of the civil month holding day
MonthStart(day) ==
    LET z   == day + 719468
        era == z \div 146097
        doe == z - era * 146097
        yoe == (doe - doe \div 1460 + doe \div 36524 - doe \div 146096) \div 365
        doy == doe - (365 * yoe + yoe \div 4 - yoe \div 100)
        mp  == (5 * doy + 2) \div 153
        d   == doy - (153 * mp + 2) \div 5 + 1
    IN  day - (d - 1)

(***************************************************************************)
(* Frames: a frame is a sequence of rows.                                  *)
(***************************************************************************)
RECURSIVE Concat(_)
Concat(frames) ==
    IF frames = <<>> THEN <<>> ELSE Head(frames) \o Concat(Tail(frames))

RECURSIVE SumSeq(_)
SumSeq(xs) == IF xs = <<>> THEN 0 ELSE Head(xs) + SumSeq(Tail(xs))

\* sum of column col over the rows of frame whose key (one per row) is k
SumByKey(frame, keys, k, col) ==
    SumSeq([i \in 1..Len(frame) |-> IF keys[i] = k THEN frame[i][col] ELSE 0])

RECURSIVE SortedInstants(_)
\* the instants of S in ascending order
SortedInstants(S) ==
    IF S = {} THEN <<>>
    ELSE LET lo == CHOOSE x \in S : \A y \in S : ~NumLess(y, x)
         IN  <<lo>> \o SortedInstants(S \ {lo})

RECURSIVE cumsum_rolling(_)
cumsum_rolling(xs) ==
    IF Len(xs) <= 1 THEN xs
    ELSE LET init == SubSeq(xs, 1, Len(xs) - 1)
         IN  Append(cumsum_rolling(init), xs[Len(xs) - 1] + xs[Len(xs)])

RECURSIVE cumsum(_)
\* Series.cumsum(): each entry is the previous running total plus the value
cumsum(xs) ==
    IF xs = <<>> THEN <<>>
    ELSE LET init == SubSeq(xs, 1, Len(xs) - 1)
             prev == cumsum(init)
         IN  Append(prev, (IF prev = <<>> THEN 0 ELSE prev[Len(prev)]) + xs[Len(xs)])

(***************************************************************************)
(* Page 1, Interchain Transfers: the GMPChart block.                       *)
(***************************************************************************)
api_urls == <<"GMPChart?contractAddress=0xB5FB4BE02232B1bBA4dC8f81dc24C26980dE9e3C",
              "GMPChart?contractAddress=axelar1aqcj54lzz0rk22gvqgcn8fr5tx4rzwdv5wv5j9dmnacgefvd7wzsy2j2mr">>

\* 2023-11-27 (Mon), 2023-11-30 (Thu), 2023-12-01 (Fri), 2023-12-04 (Mon)
ChartDays == {19688, 19691, 19692, 19695}

\* one point of a GMPChart series: a day (milliseconds), its transfers and volume
ChartPoints ==
    { [timestamp |-> Num(d * SecondsPerDay, 1), num_txs |-> n[1], volume |-> n[2]] :
        d \in ChartDays, n \in {<<1, 10>>, <<2, 0>>} }

\* a series: at most MaxRows points, one per day, in time order
ChartSeries ==
    { s \in UNION { [1..n -> ChartPoints] : n \in 0..MaxRows } :
        \A i \in 1..(Len(s) - 1) : NumLess(s[i].timestamp, s[i + 1].timestamp) }

\* what requests.get(url) can end with
ChartResponses ==
    { [kind |-> "error", status_code |-> 0, data |-> <<>>],
      [kind |-> "status", status_code |-> 500, data |-> <<>>] }
    \cup { [kind |-> "ok", status_code |-> 200, data |-> s] : s \in ChartSeries }

Timeframes == {"month", "week", "day"}

DateRanges == { <<19688, 19695>>, <<19691, 19692>> }

Raise(exc) ==
    /\ raised' = exc
    /\ pc' = "crashed"

InitCommon ==
    /\ timeframe \in Timeframes
    /\ \E r \in DateRanges : start_date = r[1] /\ end_date = r[2]
    /\ raised = "none"
    /\ messages = {}
    /\ responses = <<>>

\* the frames of the other pages, which this page run never builds
IdleTransfers == dfs = <<>> /\ df_all = <<>> /\ agg_df = <<>>

IdleTokenMonitoring ==
    /\ raw = <<>>
    /\ period_agg = {}
    /\ period_path = {}
    /\ path_group = {}
    /\ user_group = {}

IdleFrame == df = <<>>

IdleMonitoringAPI == timestamp_col = <<>> /\ ts_dtype = "datetime64"

IdleMonitoringSQL == fact = {} /\ df_timeseries = {} /\ df_norm = {}

IdleAgg == df_agg = <<>>

IdleFetchWindow == backend = {} /\ tz_offset = 0 /\ request = <<>> /\ fetched = {}

IdleTransferFees == fact_fees = {} /\ df_interchain_fees_data = <<>>

IdleCache ==
    /\ cache = {}
    /\ now = 0
    /\ round_trips = 0
    /\ returned = <<>>

IdlePayload == payload = <<>> /\ loaded = <<>>

\* the blocks added after the pages, which a page run never touches
IdleSessions == session = "none" /\ owner = <<>>

IdleUsers ==
    /\ fact_users = {}
    /\ df_interchain_users_data = <<>>
    /\ df_deployers_overtime = <<>>

IdleTokens ==
    /\ tx_data = <<>>
    /\ assets_data = <<>>
    /\ df_tokens = <<>>
    /\ top_volume = <<>>
    /\ top_transfers = <<>>

IdleLate == IdlePayload /\ IdleSessions /\ IdleUsers /\ IdleTokens

IdlePages ==
    /\ IdleTransfers
    /\ IdleTokenMonitoring
    /\ IdleFrame
    /\ IdleMonitoringAPI
    /\ IdleMonitoringSQL
    /\ IdleAgg

InitTransfers ==
    /\ InitCommon
    /\ pc = "fetch"
    /\ dfs = <<>>
    /\ df_all = <<>>
    /\ agg_df = <<>>
    /\ IdleTokenMonitoring
    /\ IdleFrame
    /\ IdleMonitoringAPI
    /\ IdleMonitoringSQL
    /\ IdleAgg
    /\ IdleFetchWindow
    /\ IdleTransferFees
    /\ IdleCache
    /\ IdleLate

\* one turn of "for url in api_urls"
P1FetchUrl ==
    /\ pc = "fetch"
    /\ \E resp \in ChartResponses :
        LET i == Len(responses) + 1
            next == IF i = Len(api_urls) THEN "concat" ELSE "fetch"
        IN  /\ responses' = Append(responses, resp)
            /\ CASE resp.kind = "error" ->
                      \* requests.get raises; nothing catches it
                      /\ Raise("ConnectionError")
                      /\ UNCHANGED <<messages, dfs>>
                 [] resp.kind = "status" ->
                      /\ messages' = messages \cup {[level |-> "error", about |-> api_urls[i]]}
                      /\ pc' = next
                      /\ UNCHANGED <<raised, dfs>>
                 [] resp.kind = "ok" /\ resp.data = <<>> ->
                      \* pd.DataFrame([]) has no columns: df["timestamp"] raises
                      /\ Raise("KeyError")
                      /\ UNCHANGED <<messages, dfs>>
                 [] OTHER ->
                      LET frame == [k \in 1..Len(resp.data) |->
                                   [resp.data[k] EXCEPT
                                      !.timestamp = to_datetime(resp.data[k].timestamp, "ms")]]
                      IN  /\ dfs' = Append(dfs, frame)
                          /\ pc' = next
                          /\ UNCHANGED <<raised, messages>>
    /\ UNCHANGED <<timeframe, start_date, end_date, df_all, agg_df>>
    /\ UNCHANGED varsNotTransfers

\* df_all = pd.concat(dfs), then the date filter
P1Concat ==
    /\ pc = "concat"
    /\ IF dfs = <<>>
       THEN /\ Raise("ValueError")      \* "No objects to concatenate"
            /\ UNCHANGED df_all
       ELSE /\ df_all' = SelectSeq(Concat(dfs),
                           LAMBDA r : DateOf(r.timestamp) >= start_date
                                      /\ DateOf(r.timestamp) <= end_date)
            /\ pc' = "aggregate"
            /\ UNCHANGED raised
    /\ UNCHANGED <<timeframe, start_date, end_date, messages, responses, dfs, agg_df>>
    /\ UNCHANGED varsNotTransfers

\* the "period" column of page 1
P1Period(ts, tf) ==
    IF tf = "week" THEN Midnight(WeekStart(DateOf(ts)))
    ELSE IF tf = "month" THEN Midnight(MonthStart(DateOf(ts)))
    ELSE ts

\* groupby("period").agg(sum), sort_values("period"), cumsum()
P1AggDf(frame, tf) ==
    LET keys    == [i \in 1..Len(frame) |-> P1Period(frame[i].timestamp, tf)]
        periods == SortedInstants({ keys[i] : i \in 1..Len(frame) })
        num(p)  == SumByKey(frame, keys, p, "num_txs")
        vol(p)  == SumByKey(frame, keys, p, "volume")
        nums    == [i \in 1..Len(periods) |-> num(periods[i])]
        vols    == [i \in 1..Len(periods) |-> vol(periods[i])]
        cnum    == cumsum(nums)
        cvol    == cumsum(vols)
    IN  [i \in 1..Len(periods) |->
            [period |-> periods[i], num_txs |-> nums[i], volume |-> vols[i],
             cum_num_txs |-> cnum[i], cum_volume |-> cvol[i]]]

P1Aggregate ==
    /\ pc = "aggregate"
    /\ agg_df' = P1AggDf(df_all, timeframe)
    /\ pc' = "kpis"
    /\ UNCHANGED <<timeframe, start_date, end_date, raised, messages, responses, dfs, df_all>>
    /\ UNCHANGED varsNotTransfers

\* the KPI cards and the two charts read agg_df; nothing is computed
P1Render ==
    /\ pc = "kpis"
    /\ pc' = "done"
    /\ UNCHANGED <<timeframe, start_date, end_date, raised, messages, responses, dfs, df_all, agg_df>>
    /\ UNCHANGED varsNotTransfers

NextTransfers == P1FetchUrl \/ P1Concat \/ P1Aggregate \/ P1Render

SpecTransfers == InitTransfers /\ [][NextTransfers]_vars

(***************************************************************************)
(* Cells of semi-structured records.  k is "absent" (the key is missing),  *)
(* "null" (None / NaN), "num" (the number m * 1000^e) or "str" (text s).   *)
(***************************************************************************)
Absent == [k |-> "absent", m |-> 0, e |-> 0, s |-> ""]
Null == [k |-> "null", m |-> 0, e |-> 0, s |-> ""]
NE(m, e) == [k |-> "num", m |-> m, e |-> e, s |-> ""]
N(m) == NE(m, 0)
Str(s) == [k |-> "str", m |-> 0, e |-> 0, s |-> s]

\* pd.isna on a cell of a frame (a missing key reads as NaN)
IsNa(c) == c.k \in {"absent", "null"}

\* the cell as a frame holds it
AsNa(c) == IF c.k = "absent" THEN Null ELSE c

\* Python truthiness of a scalar cell
Truthy(c) == (c.k = "num" /\ c.m # 0) \/ (c.k = "str" /\ c.s # "")

\* pd.to_numeric(..., errors="coerce") on one cell; the texts of the model are not numerals
to_numeric(c) == IF c.k = "num" THEN c ELSE Null

\* name in df.columns: pd.DataFrame(list of dicts) has a column for every key some record has
HasCol(frame, name) == \E i \in 1..Len(frame) : frame[i][name].k # "absent"

\* Series.fillna(other), row by row
fillna(a, b) == [i \in 1..Len(a) |-> IF IsNa(a[i]) THEN AsNa(b[i]) ELSE a[i]]

Column(frame, name) == [i \in 1..Len(frame) |-> AsNa(frame[i][name])]

(***************************************************************************)
(* Page 3, ITS Token Monitoring.                                           *)
(*                                                                         *)
(* A searchGMP record.  The keys of its interchain_transfer sub-object     *)
(* carry the prefix it_; fees is Absent, Null (not a dict) or a fee dict;  *)
(* ts_candidates are the values extract_ts_row looks up, in its order      *)
(* (executed.block_timestamp first, the top-level timestamp last).         *)
(***************************************************************************)
FeeDict(base, express, express_fee, fee) ==
    [k |-> "dict", base_fee_usd |-> base, express_fee_usd |-> express,
     express_fee |-> express_fee, fee |-> fee]

\* 2023-11-27 00:00:00 and 2023-12-01 01:00:00, in seconds
T1 == 19688 * SecondsPerDay
T2 == 19692 * SecondsPerDay + 3600

BaseRecord ==
    [id |-> "tx1",
     sourceChain |-> Str("ethereum"), it_sourceChain |-> Absent, origin_chain |-> Null,
     destinationChain |-> Str("base"), it_destinationChain |-> Absent,
     destination_chain |-> Null, callback_chain |-> Null,
     amount |-> N(5), it_amount |-> Absent, value |-> N(10), it_value |-> Absent,
     fees |-> FeeDict(N(1), Null, Absent, Absent),
     gas_used_amount |-> Absent, token_price_usd |-> Absent,
     ts_candidates |-> <<N(T1)>>,
     sourceAddress |-> Str("0xaa"), it_sourceAddress |-> Absent, from |-> Absent]

FeeShapes ==
    { [BaseRecord EXCEPT !.fees = f] :
        f \in { Absent, Null,
                FeeDict(N(0), N(2), Absent, Absent),
                FeeDict(Absent, N(2), Absent, Absent),
                FeeDict(Null, Null, N(4), Absent),
                FeeDict(Null, Null, Absent, Absent) } }
    \cup { [BaseRecord EXCEPT !.fees = FeeDict(Null, Null, Absent, Absent),
                              !.gas_used_amount = N(3), !.token_price_usd = N(2)] }

ChainShapes ==
    { [BaseRecord EXCEPT !.sourceChain = Null],
      [BaseRecord EXCEPT !.sourceChain = Null, !.origin_chain = Str("binance")],
      [BaseRecord EXCEPT !.destinationChain = Null, !.callback_chain = Str("arbitrum")],
      [BaseRecord EXCEPT !.sourceChain = Absent, !.it_sourceChain = Str("ethereum"),
                         !.destinationChain = Absent, !.it_destinationChain = Str("base")],
      [BaseRecord EXCEPT !.origin_chain = Absent, !.destination_chain = Absent,
                         !.callback_chain = Absent] }

AmountShapes ==
    { [BaseRecord EXCEPT !.amount = Null],
      [BaseRecord EXCEPT !.amount = Str("n/a"), !.value = Null],
      [BaseRecord EXCEPT !.amount = Absent, !.it_amount = N(7)] }

OtherTransfers ==
    { [BaseRecord EXCEPT !.id = "tx2", !.destinationChain = Str("arbitrum")],
      [BaseRecord EXCEPT !.id = "tx2", !.sourceAddress = Str("0xbb"),
                         !.ts_candidates = <<N(T2)>>],
      [BaseRecord EXCEPT !.id = "tx3", !.sourceAddress = Null, !.from = Str("0xcc")] }

TimestampShapes ==
    { [BaseRecord EXCEPT !.ts_candidates = <<>>],
      [BaseRecord EXCEPT !.ts_candidates = <<Str("2023-11-27T00:00:00Z"), N(T2)>>],
      [BaseRecord EXCEPT !.ts_candidates = <<Str("2023-11-27T00:00:00Z")>>],
      [BaseRecord EXCEPT !.ts_candidates = <<NE(T1, 1)>>] }

RawRecords ==
    {BaseRecord} \cup FeeShapes \cup ChainShapes \cup AmountShapes
        \cup OtherTransfers \cup TimestampShapes

\* what requests.get(GMP_API) followed by raise_for_status() can end with
GmpResponses ==
    { [kind |-> "error", data |-> <<>>] }
    \cup { [kind |-> "ok", data |-> d] :
             d \in UNION { [1..n -> RawRecords] : n \in 0..MaxRows } }

\* get_col(name): the top-level column, else the interchain_transfer column, else None
get_col(frame, name, it_name) ==
    IF HasCol(frame, name) THEN Column(frame, name)
    ELSE IF HasCol(frame, it_name) THEN Column(frame, it_name)
    ELSE [i \in 1..Len(frame) |-> Null]

\* a fee lookup that ends with "or 0"
extract_fee_cell_or_zero(x) ==
    IF x.k # "dict" THEN Null
    ELSE IF Truthy(x.base_fee_usd) THEN x.base_fee_usd
    ELSE IF Truthy(x.express_fee_usd) THEN x.express_fee_usd
    ELSE IF Truthy(x.express_fee) THEN x.express_fee
    ELSE IF Truthy(x.fee) THEN x.fee
    ELSE N(0)

\* the first truthy of the four candidates: Python's "a or b or c or d or None"
extract_fee_cell(x) ==
    IF x.k # "dict" THEN Null
    ELSE IF Truthy(x.base_fee_usd) THEN x.base_fee_usd
    ELSE IF Truthy(x.express_fee_usd) THEN x.express_fee_usd
    ELSE IF Truthy(x.express_fee) THEN x.express_fee
    ELSE IF Truthy(x.fee) THEN x.fee
    ELSE Null

RECURSIVE extract_ts_row_or_zero(_)
\* a lookup that answers 0 when no candidate is usable
extract_ts_row_or_zero(cands) ==
    IF cands = <<>> THEN N(0)
    ELSE IF Truthy(Head(cands)) /\ Head(cands).k = "num" THEN Head(cands)
    ELSE extract_ts_row_or_zero(Tail(cands))

RECURSIVE extract_ts_row(_)
\* the first candidate that is truthy and that int() accepts
extract_ts_row(cands) ==
    IF cands = <<>> THEN Null
    ELSE IF Truthy(Head(cands)) /\ Head(cands).k = "num" THEN Head(cands)
    ELSE extract_ts_row(Tail(cands))

\* the "period" column of page 3
P3Period(ts, tf) ==
    IF tf = "Day" THEN Midnight(DateOf(ts))
    ELSE IF tf = "Week" THEN Midnight(WeekStart(DateOf(ts)))
    ELSE Midnight(MonthStart(DateOf(ts)))

\* Series.fillna(df.get(col)) raises ValueError when the column is missing:
\* df.get returns None and fillna(None) has nothing to fill with
preprocess_raises(frame) ==
    /\ frame # <<>>
    /\ \/ ~HasCol(frame, "origin_chain")
       \/ ~HasCol(frame, "destination_chain")
       \/ ~HasCol(frame, "callback_chain")

\* the "Unknown" placeholder of the path column
PathLabel(chain) == IF IsNa(chain) THEN "Unknown" ELSE chain.s

preprocess(frame, tf) ==
    LET n == Len(frame)
        src == fillna(get_col(frame, "sourceChain", "it_sourceChain"),
                      Column(frame, "origin_chain"))
        dst == fillna(fillna(get_col(frame, "destinationChain", "it_destinationChain"),
                             Column(frame, "destination_chain")),
                      Column(frame, "callback_chain"))
        amt == get_col(frame, "amount", "it_amount")
        val == get_col(frame, "value", "it_value")
        adr == get_col(frame, "sourceAddress", "it_sourceAddress")
        tsv == [i \in 1..n |-> extract_ts_row(frame[i].ts_candidates)]
        ts  == [i \in 1..n |-> IF tsv[i].k = "num"
                               THEN to_datetime(Num(tsv[i].m, tsv[i].e), "s") ELSE NaT]
        rows == [i \in 1..n |->
                   [rec |-> frame[i],
                    sourceAddress |-> adr[i],
                    sourceChain |-> src[i],
                    destinationChain |-> dst[i],
                    path |-> <<PathLabel(src[i]), PathLabel(dst[i])>>,
                    tx_amount |-> to_numeric(amt[i]),
                    value |-> to_numeric(val[i]),
                    fee |-> IF HasCol(frame, "fees")
                            THEN to_numeric(extract_fee_cell(frame[i].fees)) ELSE Null,
                    timestamp |-> ts[i],
                    period |-> IF ts[i] = NaT THEN NaT ELSE P3Period(ts[i], tf)]]
        kept == SelectSeq(rows, LAMBDA r : r.timestamp # NaT)
        \* df["sourceAddress"].isna().all(), asked after the dropna
        adr_all_na == \A i \in 1..Len(kept) : IsNa(kept[i].sourceAddress)
    IN  IF adr_all_na /\ HasCol(frame, "from")
        THEN [i \in 1..Len(kept) |-> [kept[i] EXCEPT !.sourceAddress = AsNa(kept[i].rec.from)]]
        ELSE kept

(***************************************************************************)
(* groupby(...).agg(...): sum skips NaN, count counts the non-null cells,  *)
(* nunique counts the distinct non-null cells.  An aggregate table is the  *)
(* set of its rows; the order of the rows is not modelled.                 *)
(***************************************************************************)
AggSum(rows, col) ==
    SumSeq([i \in 1..Len(rows) |-> IF rows[i][col].k = "num" THEN rows[i][col].m ELSE 0])

AggCount(rows, col) ==
    SumSeq([i \in 1..Len(rows) |-> IF IsNa(rows[i][col]) THEN 0 ELSE 1])

AggNUnique(rows, col) ==
    Cardinality({ rows[i][col] : i \in { j \in 1..Len(rows) : ~IsNa(rows[j][col]) } })

PeriodAgg(frame) ==
    { LET g == SelectSeq(frame, LAMBDA r : r.period = p)
      IN  [period |-> p,
           total_volume |-> AggSum(g, "value"),
           total_txs |-> AggCount(g, "tx_amount"),
           unique_users |-> AggNUnique(g, "sourceAddress"),
           total_fees |-> AggSum(g, "fee")] :
      p \in { frame[i].period : i \in 1..Len(frame) } }

\* a per-path table that leaves out the rows with a missing chain
PeriodPathAgg_dropna(frame) ==
    { LET g == SelectSeq(frame, LAMBDA r : r.period = key[1] /\ r.path = key[2])
      IN  [period |-> key[1], path |-> key[2],
           volume |-> AggSum(g, "value"),
           tx_count |-> AggCount(g, "tx_amount"),
           users |-> AggNUnique(g, "sourceAddress"),
           fees |-> AggSum(g, "fee")] :
      key \in { <<frame[i].period, frame[i].path>> :
                  i \in { j \in 1..Len(frame) : ~IsNa(frame[j].sourceChain)
                                                /\ ~IsNa(frame[j].destinationChain) } } }

PeriodPathAgg(frame) ==
    { LET g == SelectSeq(frame, LAMBDA r : r.period = key[1] /\ r.path = key[2])
      IN  [period |-> key[1], path |-> key[2],
           volume |-> AggSum(g, "value"),
           tx_count |-> AggCount(g, "tx_amount"),
           users |-> AggNUnique(g, "sourceAddress"),
           fees |-> AggSum(g, "fee")] :
      key \in { <<frame[i].period, frame[i].path>> : i \in 1..Len(frame) } }

PathGroupAgg(frame) ==
    { LET g == SelectSeq(frame, LAMBDA r : r.path = p)
      IN  [path |-> p,
           total_volume |-> AggSum(g, "value"),
           total_txs |-> AggCount(g, "tx_amount"),
           total_users |-> AggNUnique(g, "sourceAddress"),
           total_fees |-> AggSum(g, "fee")] :
      p \in { frame[i].path : i \in 1..Len(frame) } }

\* groupby("sourceAddress") drops the rows whose key is NaN
UserGroupAgg(frame) ==
    { LET g == SelectSeq(frame, LAMBDA r : r.sourceAddress = a)
      IN  [sourceAddress |-> a,
           tx_count |-> AggCount(g, "tx_amount"),
           volume |-> AggSum(g, "value")] :
      a \in { frame[i].sourceAddress : i \in { j \in 1..Len(frame) : ~IsNa(frame[j].sourceAddress) } } }

Timeframes3 == {"Day", "Week", "Month"}

InitTokenMonitoring ==
    /\ timeframe \in Timeframes3
    /\ start_date = 19688
    /\ end_date = 19695
    /\ raised = "none"
    /\ messages = {}
    /\ responses = <<>>
    /\ pc = "fetch"
    /\ IdleTransfers
    /\ IdleTokenMonitoring
    /\ IdleFrame
    /\ IdleMonitoringAPI
    /\ IdleMonitoringSQL
    /\ IdleAgg
    /\ IdleFetchWindow
    /\ IdleTransferFees
    /\ IdleCache
    /\ IdleLate


\* a run that asks again after a failed request
after_request_retry(resp) == IF resp.kind = "error" THEN "fetch" ELSE "preprocess"

\* fetch_gmp_data returns after its one requests.get, whatever came of it: the
\* except branch shows the error and returns an empty frame, nothing asks again
after_request(resp) == "preprocess"

\* raw = fetch_gmp_data(...): every failure is caught, shown and turned into an empty frame
P3Fetch ==
    /\ pc = "fetch"
    /\ \E resp \in GmpResponses :
        /\ responses' = Append(responses, resp)
        /\ IF resp.kind = "error"
           THEN /\ messages' = messages \cup {[level |-> "error", about |-> "searchGMP"]}
                /\ raw' = <<>>
           ELSE /\ raw' = resp.data
                /\ UNCHANGED messages
        /\ pc' = after_request(resp)
    /\ UNCHANGED <<timeframe, start_date, end_date, raised>>
    /\ UNCHANGED <<period_agg, period_path, path_group, user_group, df>>
    /\ UNCHANGED varsNotTokenMonitoring

\* df = preprocess(raw, timeframe)
P3Preprocess ==
    /\ pc = "preprocess"
    /\ IF preprocess_raises(raw)
       THEN /\ Raise("ValueError")
            /\ UNCHANGED df
       ELSE /\ df' = preprocess(raw, timeframe)
            /\ pc' = "check"
            /\ UNCHANGED raised
    /\ UNCHANGED <<timeframe, start_date, end_date, messages, responses>>
    /\ UNCHANGED <<raw, period_agg, period_path, path_group, user_group>>
    /\ UNCHANGED varsNotTokenMonitoring

\* if df.empty: st.warning(...); st.stop()
P3EmptyCheck ==
    /\ pc = "check"
    /\ IF df = <<>>
       THEN /\ messages' = messages \cup {[level |-> "warning", about |-> "no data"]}
            /\ pc' = "stopped"
       ELSE /\ pc' = "aggregate"
            /\ UNCHANGED messages
    /\ UNCHANGED <<timeframe, start_date, end_date, raised, responses>>
    /\ UNCHANGED <<raw, period_agg, period_path, path_group, user_group, df>>
    /\ UNCHANGED varsNotTokenMonitoring

\* the four groupby tables
P3Aggregate ==
    /\ pc = "aggregate"
    /\ period_agg' = PeriodAgg(df)
    /\ period_path' = PeriodPathAgg(df)
    /\ path_group' = PathGroupAgg(df)
    /\ user_group' = UserGroupAgg(df)
    /\ pc' = "kpis"
    /\ UNCHANGED <<timeframe, start_date, end_date, raised, messages, responses>>
    /\ UNCHANGED <<raw, df>>
    /\ UNCHANGED varsNotTokenMonitoring

\* the KPI cards and charts read the tables; nothing is computed that the model keeps
P3Render ==
    /\ pc = "kpis"
    /\ pc' = "done"
    /\ UNCHANGED <<timeframe, start_date, end_date, raised, messages, responses>>
    /\ UNCHANGED <<raw, period_agg, period_path, path_group, user_group, df>>
    /\ UNCHANGED varsNotTokenMonitoring

NextTokenMonitoring == P3Fetch \/ P3Preprocess \/ P3EmptyCheck \/ P3Aggregate \/ P3Render

SpecTokenMonitoring == InitTokenMonitoring /\ [][NextTokenMonitoring]_vars


(***************************************************************************)
(* Page 4, Monitoring ITS Tokens: the GMPChart load.                       *)
(***************************************************************************)

\* 2000-01-01 00:00:00, in seconds: an instant below 1e9 seconds
T0 == 10957 * SecondsPerDay

IsoText == "2023-11-27T00:00:00Z"

\* pd.to_datetime on a text: the instant it spells, NaT when it spells none
parse_text(s) == IF s = IsoText THEN Normalise(T1, 3) ELSE NaT

\* the instants T0 and T1 written in seconds, milli-, micro- and nanoseconds,
\* a missing timestamp and a timestamp given as text
GmpChartTimestamps ==
    { NE(t, e) : t \in {T0, T1}, e \in 0..3 } \cup { Null, Str(IsoText) }

GmpChartPoints ==
    { [timestamp |-> t, num_txs |-> n[1], volume |-> n[2]] :
        t \in GmpChartTimestamps, n \in { <<N(2), N(10)>>, <<Null, Str("n/a")>> } }

\* what requests.get + raise_for_status + json can end with
GmpChartResponses ==
    { [kind |-> "error", data |-> <<>>] }
    \cup { [kind |-> "ok", data |-> d] :
             d \in UNION { [1..n -> GmpChartPoints] : n \in 0..MaxRows } }

\* nums.max(): the largest number of a column that has one
ColumnMax(nums) ==
    LET S == { nums[i] : i \in { j \in 1..Len(nums) : nums[j].k = "num" } }
        hi == CHOOSE x \in S : \A y \in S : ~NumLess(Num(x.m, x.e), Num(y.m, y.e))
    IN  Num(hi.m, hi.e)

\* the unit picked from the column's maximum
unit_of(maxv) ==
    IF Exceeds(maxv, 6) THEN "ns"
    ELSE IF Exceeds(maxv, 5) THEN "us"
    ELSE IF Exceeds(maxv, 4) THEN "ms"
    ELSE "s"

\* pd.to_datetime(col, utc=True, errors="coerce") without a unit:
\* a number is read as nanoseconds, a text is parsed
to_datetime_plain(c) ==
    IF c.k = "num" THEN to_datetime(Num(c.m, c.e), "ns")
    ELSE IF c.k = "str" THEN parse_text(c.s)
    ELSE NaT

parse_timestamp_col(col) ==
    LET nums == [i \in 1..Len(col) |-> to_numeric(col[i])]
    IN  IF \E i \in 1..Len(nums) : nums[i].k = "num"
        THEN LET unit == unit_of(ColumnMax(nums))
                 full == [i \in 1..Len(col) |->
                            IF nums[i].k = "num"
                            THEN to_datetime(Num(nums[i].m, nums[i].e), unit) ELSE NaT]
             IN  [i \in 1..Len(col) |->
                    IF full[i] = NaT THEN to_datetime_plain(col[i]) ELSE full[i]]
        ELSE [i \in 1..Len(col) |-> to_datetime_plain(col[i])]

\* the fallback assigns timezone-aware values into the timezone-naive column
\* when a row is still NaT after the numeric pass
fallback_assigns(col) ==
    /\ \E i \in 1..Len(col) : to_numeric(col[i]).k = "num"
    /\ LET unit == unit_of(ColumnMax([i \in 1..Len(col) |-> to_numeric(col[i])]))
       IN  \E i \in 1..Len(col) :
              \/ to_numeric(col[i]).k # "num"
              \/ to_datetime(Num(col[i].m, col[i].e), unit) = NaT

\* pd.to_numeric(...).fillna(0)
numeric_or_zero(c) == IF c.k = "num" THEN c.m ELSE 0

\* sort_values("timestamp"): ascending, rows of one instant in their order
SortByTimestamp(rows) ==
    LET order == SortedInstants({ rows[i].timestamp : i \in 1..Len(rows) })
    IN  Concat([k \in 1..Len(order) |->
                  SelectSeq(rows, LAMBDA r : r.timestamp = order[k])])

\* the frame load_gmp_data returns for a data list
load_gmp_data(data) ==
    LET parsed == parse_timestamp_col([i \in 1..Len(data) |-> data[i].timestamp])
        rows == [i \in 1..Len(data) |->
                   [timestamp |-> parsed[i],
                    num_txs |-> numeric_or_zero(data[i].num_txs),
                    volume |-> numeric_or_zero(data[i].volume)]]
    IN  SortByTimestamp(SelectSeq(rows, LAMBDA r : r.timestamp # NaT))

\* resample('M', label='left'): the bin is the calendar month, labelled with
\* the last day of the month before
MonthBinLabel(ts) == Midnight(MonthStart(DateOf(ts)) - 1)

\* resample('W-MON', label='left'): the bin runs from a Tuesday to the next
\* Monday, labelled with the Monday before it
WeekBinLabel(ts) ==
    LET d == DateOf(ts)
    IN  IF WeekStart(d) = d THEN Midnight(d - 7) ELSE Midnight(WeekStart(d))

P4Bin(ts, tf) == IF tf = "week" THEN WeekBinLabel(ts) ELSE MonthBinLabel(ts)


\* an aggregation that keeps the first row of each bin in place of the bin's sum
aggregate_by_timeframe_first(frame, tf) ==
    LET bins == [i \in 1..Len(frame) |-> P4Bin(frame[i].timestamp, tf)]
        labels == SortedInstants({ bins[i] : i \in 1..Len(frame) })
        first(b) == CHOOSE i \in 1..Len(frame) :
                        bins[i] = b /\ \A j \in 1..Len(frame) : bins[j] = b => i <= j
    IN  [k \in 1..Len(labels) |->
           [timestamp |-> labels[k],
            num_txs |-> frame[first(labels[k])].num_txs,
            volume |-> frame[first(labels[k])].volume]]

\* aggregate_by_timeframe: the rows of the bins that hold data, ascending
\* (the bins in between, which resample adds with zero sums, are not kept)
aggregate_by_timeframe(frame, tf) ==
    LET bins == [i \in 1..Len(frame) |-> P4Bin(frame[i].timestamp, tf)]
        labels == SortedInstants({ bins[i] : i \in 1..Len(frame) })
    IN  [k \in 1..Len(labels) |->
           [timestamp |-> labels[k],
            num_txs |-> SumByKey(frame, bins, labels[k], "num_txs"),
            volume |-> SumByKey(frame, bins, labels[k], "volume")]]

InitMonitoringAPI ==
    /\ InitCommon
    /\ pc = "fetch"
    /\ IdleTransfers
    /\ IdleTokenMonitoring
    /\ IdleFrame
    /\ IdleMonitoringAPI
    /\ IdleMonitoringSQL
    /\ IdleAgg
    /\ IdleFetchWindow
    /\ IdleTransferFees
    /\ IdleCache
    /\ IdleLate

\* try: df = load_gmp_data(...) except Exception: st.error(...); df = empty frame
P4LoadGmp ==
    /\ pc = "fetch"
    /\ \E resp \in GmpChartResponses :
        /\ responses' = Append(responses, resp)
        /\ IF resp.kind = "error"
           THEN /\ messages' = messages \cup {[level |-> "error", about |-> "GMPChart"]}
                /\ df' = <<>>
                /\ timestamp_col' = <<>>
                /\ ts_dtype' = "datetime64"
           ELSE /\ df' = load_gmp_data(resp.data)
                /\ timestamp_col' = parse_timestamp_col(
                                       [i \in 1..Len(resp.data) |-> resp.data[i].timestamp])
                /\ IF fallback_assigns([i \in 1..Len(resp.data) |-> resp.data[i].timestamp])
                   THEN ts_dtype' \in {"datetime64", "object"}
                   ELSE ts_dtype' = "datetime64"
                /\ UNCHANGED messages
    /\ pc' = "aggregate"
    /\ UNCHANGED <<timeframe, start_date, end_date, raised, df_agg>>
    /\ UNCHANGED varsNotMonitoringAPI

\* df_agg = aggregate_by_timeframe(df, timeframe); resample needs a DatetimeIndex
P4AggregateByTimeframe ==
    /\ pc = "aggregate"
    /\ IF df # <<>> /\ ts_dtype = "object"
       THEN /\ Raise("TypeError")
            /\ UNCHANGED df_agg
       ELSE /\ df_agg' = (IF df = <<>> THEN <<>> ELSE aggregate_by_timeframe(df, timeframe))
            /\ pc' = "chart"
            /\ UNCHANGED raised
    /\ UNCHANGED <<timeframe, start_date, end_date, messages, responses, df>>
    /\ UNCHANGED varsMonitoringAPI
    /\ UNCHANGED varsNotMonitoringAPI

\* the chart when df_agg has rows, st.warning("No data found ...") when it has none
P4Chart ==
    /\ pc = "chart"
    /\ IF df_agg = <<>>
       THEN messages' = messages \cup {[level |-> "warning", about |-> "no data"]}
       ELSE UNCHANGED messages
    /\ pc' = "done"
    /\ UNCHANGED <<timeframe, start_date, end_date, raised, responses, df, df_agg>>
    /\ UNCHANGED varsMonitoringAPI
    /\ UNCHANGED varsNotMonitoringAPI

\* transfer_metrics = load_transfer_metrics(start_date, end_date, its_token): the
\* script has no st.stop(), so it goes on to the SQL loads and their charts
\* whatever the GMPChart block showed; pd.read_sql is not guarded
P4LoadTransferMetrics ==
    /\ pc = "done"
    /\ \/ /\ responses' = Append(responses, [kind |-> "error", data |-> <<>>])
          /\ Raise("DatabaseError")
       \/ /\ responses' = Append(responses, [kind |-> "sql", data |-> <<>>])
          /\ pc' = "sql"
          /\ UNCHANGED raised
    /\ UNCHANGED <<timeframe, start_date, end_date, messages, df, df_agg>>
    /\ UNCHANGED varsMonitoringAPI
    /\ UNCHANGED varsNotMonitoringAPI

NextMonitoringAPI ==
    P4LoadGmp \/ P4AggregateByTimeframe \/ P4Chart \/ P4LoadTransferMetrics

SpecMonitoringAPI == InitMonitoringAPI /\ [][NextMonitoringAPI]_vars

(***************************************************************************)
(* Page 4, Monitoring ITS Tokens: the transfer time series and its share.  *)
(*                                                                         *)
(* A row of fact_gmp for the selected token: the day of created_at, the    *)
(* record id, the sender, the amount in tenths of a token (Null when the   *)
(* record has none) and the two chains.                                    *)
(***************************************************************************)
FactRows ==
    { [created_at |-> d, id |-> who[1], sender_address |-> who[2], amount |-> a,
       source_chain |-> ch[1], destination_chain |-> ch[2]] :
        d \in {19688, 19692},
        who \in { <<"0x01", Str("0xaa")>>, <<"0x02", Str("0xaa")>> },
        a \in { Null, N(4), N(15) },
        ch \in { <<Str("ethereum"), Str("base")>>, <<Str("ethereum"), Str("arbitrum")>>,
                 <<Null, Str("base")>> } }

RECURSIVE TablesUpTo(_)
\* the tables of at most n rows
TablesUpTo(n) ==
    IF n = 0 THEN { {} }
    ELSE LET T == TablesUpTo(n - 1) IN T \cup { t \cup {r} : t \in T, r \in FactRows }

FactTables == TablesUpTo(MaxRows)

\* DATE_TRUNC(timeframe, created_at), as a day number
date_trunc(tf, day) ==
    IF tf = "week" THEN WeekStart(day)
    ELSE IF tf = "month" THEN MonthStart(day)
    ELSE day

\* source_chain || '➡' || destination_chain: NULL when either side is NULL
sql_path(r) ==
    IF IsNa(r.source_chain) \/ IsNa(r.destination_chain) THEN Null
    ELSE [k |-> "str", m |-> 0, e |-> 0, s |-> <<r.source_chain.s, r.destination_chain.s>>]

\* ROUND(SUM(amount)): NULL when no row has an amount; halves round away from zero
round_sum(rows) ==
    IF \A r \in rows : IsNa(r.amount) THEN Null
    ELSE LET S == { r \in rows : ~IsNa(r.amount) }
             total == SumSeq([i \in 1..Cardinality(S) |->
                                 (CHOOSE f \in [1..Cardinality(S) -> S] :
                                     \A a, b \in 1..Cardinality(S) : a # b => f[a] # f[b])[i].amount.m])
         IN  N((total + 5) \div 10)

\* COUNT(DISTINCT col): NULLs are not counted
count_distinct(cells) == Cardinality({ c \in cells : ~IsNa(c) })

\* the rows the WHERE clause keeps, grouped by date and path
load_transfer_timeseries(table, tf, first_day, last_day) ==
    LET tab1 == { r \in table : r.created_at >= first_day /\ r.created_at <= last_day }
    IN  { LET g == { r \in tab1 : date_trunc(tf, r.created_at) = key[1] /\ sql_path(r) = key[2] }
          IN  [date |-> key[1], path |-> key[2],
               transfers_volume_native_token |-> round_sum(g),
               transfers_count |-> Cardinality({ r.id : r \in g }),
               senders_count |-> count_distinct({ r.sender_address : r \in g })] :
          key \in { <<date_trunc(tf, r.created_at), sql_path(r)>> : r \in tab1 } }

RECURSIVE SumInts(_, _)
\* Series.sum() of an integer column of a table
SumInts(rows, col) ==
    IF rows = {} THEN 0
    ELSE LET r == CHOOSE x \in rows : TRUE IN r[col] + SumInts(rows \ {r}, col)

RECURSIVE SumCells(_, _)
\* Series.sum() of a column of a table: NaN is skipped
SumCells(rows, col) ==
    IF rows = {} THEN 0
    ELSE LET r == CHOOSE x \in rows : TRUE
         IN  (IF r[col].k = "num" THEN r[col].m ELSE 0) + SumCells(rows \ {r}, col)

\* df_timeseries.groupby("date").agg(sum)
DateTotals(table) ==
    { [date |-> d,
       transfers_count |-> SumInts({ r \in table : r.date = d }, "transfers_count"),
       transfers_volume_native_token |->
           SumCells({ r \in table : r.date = d }, "transfers_volume_native_token")] :
      d \in { r.date : r \in table } }

RECURSIVE Gcd(_, _)
Gcd(a, b) == IF b = 0 THEN a ELSE Gcd(b, a % b)

NaN == [k |-> "nan", num |-> 0, den |-> 0]

\* the share that is zero when there is nothing to divide by
divide_zero_fill(a, b) ==
    IF IsNa(a) THEN NaN
    ELSE IF b = 0 THEN [k |-> "ratio", num |-> 0, den |-> 1]
    ELSE [k |-> "ratio", num |-> a.m \div Gcd(a.m, b), den |-> b \div Gcd(a.m, b)]

\* float division of a column cell by a total: NaN / x = NaN, 0 / 0 = NaN,
\* x / 0 = inf, else the quotient, kept as a fraction in lowest terms
divide(a, b) ==
    IF IsNa(a) THEN NaN
    ELSE IF b = 0 THEN (IF a.m = 0 THEN NaN ELSE [k |-> "inf", num |-> a.m, den |-> 0])
    ELSE [k |-> "ratio", num |-> a.m \div Gcd(a.m, b), den |-> b \div Gcd(a.m, b)]

\* df_norm: the total of the date by transform("sum"), and the share
ShareTable(table) ==
    { LET total == SumCells({ q \in table : q.date = r.date }, "transfers_volume_native_token")
      IN  [date |-> r.date, path |-> r.path,
           transfers_volume_native_token |-> r.transfers_volume_native_token,
           total |-> total,
           share |-> divide(r.transfers_volume_native_token, total)] :
      r \in table }

InitMonitoringSQL ==
    /\ InitCommon
    /\ pc = "load"
    /\ IdleTransfers
    /\ IdleTokenMonitoring
    /\ IdleFrame
    /\ IdleMonitoringAPI
    /\ IdleMonitoringSQL
    /\ IdleAgg
    /\ IdleFetchWindow
    /\ IdleTransferFees
    /\ IdleCache
    /\ IdleLate

\* df_timeseries = load_transfer_timeseries(...): pd.read_sql is not guarded
P4LoadTimeseries ==
    /\ pc = "load"
    /\ \/ /\ responses' = Append(responses, [kind |-> "error"])
          /\ Raise("DatabaseError")
          /\ UNCHANGED <<fact, df_timeseries>>
       \/ \E table \in FactTables :
          /\ responses' = Append(responses, [kind |-> "ok"])
          /\ fact' = table
          /\ df_timeseries' = load_transfer_timeseries(table, timeframe, start_date, end_date)
          /\ pc' = "totals"
          /\ UNCHANGED raised
    /\ UNCHANGED <<timeframe, start_date, end_date, messages, df_norm, df_agg>>
    /\ UNCHANGED varsNotMonitoringSQL

\* df_agg = df_timeseries.groupby("date").agg(...), the line over the stacked bars
P4DateTotals ==
    /\ pc = "totals"
    /\ df_agg' = DateTotals(df_timeseries)
    /\ pc' = "share"
    /\ UNCHANGED <<timeframe, start_date, end_date, raised, messages, responses>>
    /\ UNCHANGED varsMonitoringSQL
    /\ UNCHANGED varsNotMonitoringSQL

\* df_norm = df_timeseries.copy() with its "total" and "share" columns
P4Share ==
    /\ pc = "share"
    /\ df_norm' = ShareTable(df_timeseries)
    /\ pc' = "done"
    /\ UNCHANGED <<timeframe, start_date, end_date, raised, messages, responses>>
    /\ UNCHANGED <<fact, df_timeseries, df_agg>>
    /\ UNCHANGED varsNotMonitoringSQL

NextMonitoringSQL == P4LoadTimeseries \/ P4DateTotals \/ P4Share

SpecMonitoringSQL == InitMonitoringSQL /\ [][NextMonitoringSQL]_vars

(***************************************************************************)
(* The time window the HTTP loaders ask the provider for:                  *)
(* page 1 load_chain_stats, page 2 (ITS Tokens) load_data and page 4       *)
(* load_gmp_data.  The provider answers with the records whose instant t   *)
(* satisfies fromTime <= t <= toTime.                                      *)
(***************************************************************************)

\* instants at the start, at noon and in the last second of the days
\* around the two date ranges
BackendInstants ==
    { d * SecondsPerDay + tod :
        d \in {19687, 19688, 19692, 19695, 19696},
        tod \in {0, 12 * 60 * 60, SecondsPerDay - 1} }

RECURSIVE InstantSetsUpTo(_)
\* the sets of at most n instants
InstantSetsUpTo(n) ==
    IF n = 0 THEN { {} }
    ELSE LET T == InstantSetsUpTo(n - 1)
         IN  T \cup { t \cup {r} : t \in T, r \in BackendInstants }

\* the servers run on UTC or on a local time ahead of it
TzOffsets == {0, 3 * 60 * 60 + 30 * 60}

\* int(pd.Timestamp(date).timestamp()): midnight of the date, read as UTC
to_timestamp(date) == date * SecondsPerDay

\* int(time.mktime(dt.timetuple())): midnight of the date in the server's local time
to_unix_timestamp(date, offset) == date * SecondsPerDay - offset

\* midnight of the date in UTC, or the last second of the date
to_unix_seconds_from_date(d, end_of_day) ==
    IF end_of_day THEN d * SecondsPerDay + SecondsPerDay - 1 ELSE d * SecondsPerDay

\* the provider's answer to ...&fromTime={from_time}&toTime={to_time}
ProviderAnswer(records, from_time, to_time) ==
    { t \in records : from_time <= t /\ t <= to_time }

InitFetchWindow ==
    /\ InitCommon
    /\ pc = "fetch"
    /\ IdlePages
    /\ backend \in InstantSetsUpTo(MaxRows)
    /\ tz_offset \in TzOffsets
    /\ request = <<>>
    /\ fetched = {}
    /\ IdleTransferFees
    /\ IdleCache
    /\ IdleLate

\* requests.get(url) of a loader that asks for [from_time, to_time]
Send(loader, from_time, to_time) ==
    /\ request' = [loader |-> loader, fromTime |-> from_time, toTime |-> to_time]
    /\ fetched' = ProviderAnswer(backend, from_time, to_time)
    /\ pc' = "done"
    /\ UNCHANGED <<backend, tz_offset>>
    /\ UNCHANGED <<timeframe, start_date, end_date, raised, messages, responses>>
    /\ UNCHANGED varsNotFetchWindow

\* page 1: load_chain_stats(start_date, end_date)
FetchChainStats ==
    /\ pc = "fetch"
    /\ Send("load_chain_stats", to_timestamp(start_date), to_timestamp(end_date))

\* page 2: load_data(start_date, end_date)
FetchItsTokens ==
    /\ pc = "fetch"
    /\ Send("load_data", to_unix_timestamp(start_date, tz_offset),
            to_unix_timestamp(end_date, tz_offset))

\* page 4: load_gmp_data(symbol, start_date, end_date)
FetchGmpChart ==
    /\ pc = "fetch"
    /\ Send("load_gmp_data", to_unix_seconds_from_date(start_date, FALSE),
            to_unix_seconds_from_date(end_date, TRUE))

NextFetchWindow == FetchChainStats \/ FetchItsTokens \/ FetchGmpChart

SpecFetchWindow == InitFetchWindow /\ [][NextFetchWindow]_vars

(***************************************************************************)
(* Page 1, the transfer fees over time: load_interchain_fees_data.  A row  *)
(* of fact_gmp is [created_at, id, fee]: the day it was created and its    *)
(* fee in tenths of a dollar (NULL when neither fee field is a number).    *)
(***************************************************************************)
FeeFactRows ==
    { [created_at |-> d, id |-> i, fee |-> f] :
        d \in {19650, 19688, 19692, 19700},
        i \in {"0x01", "0x02", "0x03"},
        f \in { Null, N(4), N(15) } }

RECURSIVE FeeTablesUpTo(_)
\* the tables of at most n rows, one row per id
FeeTablesUpTo(n) ==
    IF n = 0 THEN { {} }
    ELSE LET T == FeeTablesUpTo(n - 1)
         IN  T \cup UNION { { t \cup {r} :
                                  r \in { x \in FeeFactRows : \A y \in t : y.id # x.id } } :
                             t \in T }

RECURSIVE SortedDays(_)
\* order by "Date": the days of a set in ascending order
SortedDays(S) ==
    IF S = {} THEN <<>>
    ELSE LET lo == CHOOSE x \in S : \A y \in S : x <= y
         IN  <<lo>> \o SortedDays(S \ {lo})

\* the non-NULL fees of a group, in ascending order
SortedFees(rows) ==
    LET S == { r \in rows : ~IsNa(r.fee) }
        n == Cardinality(S)
        f == CHOOSE g \in [1..n -> S] :
                 /\ \A a, b \in 1..n : a # b => g[a] # g[b]
                 /\ \A a, b \in 1..n : a < b => g[a].fee.m <= g[b].fee.m
    IN  [i \in 1..n |-> f[i].fee.m]

\* round(sum(fee)) in dollars: NULL when the group has no fee
round_sum_fee(rows) ==
    LET xs == SortedFees(rows)
    IN  IF Len(xs) = 0 THEN Null ELSE N((SumSeq(xs) + 5) \div 10)

\* round(avg(fee), 3) in thousandths of a dollar
round_avg_fee(rows) ==
    LET xs == SortedFees(rows)
        n  == Len(xs)
    IN  IF n = 0 THEN Null ELSE N((2 * 100 * SumSeq(xs) + n) \div (2 * n))

\* round(median(fee), 3) in thousandths of a dollar
round_median_fee(rows) ==
    LET xs == SortedFees(rows)
        n  == Len(xs)
    IN  IF n = 0 THEN Null
        ELSE IF n % 2 = 1 THEN N(100 * xs[(n + 1) \div 2])
        ELSE N(50 * (xs[n \div 2] + xs[n \div 2 + 1]))

\* sum("Transfer Fees") over (order by "Date"): the running sum of the non-NULL sums
running_fee(sums) ==
    [i \in 1..Len(sums) |->
        IF \A j \in 1..i : IsNa(sums[j]) THEN Null
        ELSE N(SumSeq([j \in 1..i |-> IF IsNa(sums[j]) THEN 0 ELSE sums[j].m]))]

\* the query of load_interchain_fees_data: its text never mentions start_str,
\* end_str or timeframe; it groups every row of the table by month
load_interchain_fees_data(table, tf, first_day, last_day) ==
    LET dates == SortedDays({ MonthStart(r.created_at) : r \in table })
        group(i) == { r \in table : MonthStart(r.created_at) = dates[i] }
        sums == [i \in 1..Len(dates) |-> round_sum_fee(group(i))]
        run == running_fee(sums)
    IN  [i \in 1..Len(dates) |->
            [Date |-> dates[i], TransferFees |-> sums[i], TotalTransferFees |-> run[i],
             AverageGasFee |-> round_avg_fee(group(i)),
             MedianGasFee |-> round_median_fee(group(i))]]

InitTransferFees ==
    /\ InitCommon
    /\ pc = "load"
    /\ IdlePages
    /\ IdleFetchWindow
    /\ IdleTransferFees
    /\ IdleCache
    /\ IdleLate

\* df_interchain_fees_data = load_interchain_fees_data(timeframe, start_date, end_date):
\* pd.read_sql is not guarded
P1LoadFees ==
    /\ pc = "load"
    /\ \/ /\ responses' = Append(responses, [kind |-> "error"])
          /\ Raise("DatabaseError")
          /\ UNCHANGED <<fact_fees, df_interchain_fees_data>>
       \/ \E table \in FeeTablesUpTo(MaxRows) :
          /\ responses' = Append(responses, [kind |-> "ok"])
          /\ fact_fees' = table
          /\ df_interchain_fees_data' =
                 load_interchain_fees_data(table, timeframe, start_date, end_date)
          /\ pc' = "chart"
          /\ UNCHANGED raised
    /\ UNCHANGED <<timeframe, start_date, end_date, messages>>
    /\ UNCHANGED varsNotTransferFees

\* fig1 = go.Figure() ... st.plotly_chart(fig1): the bars and the line of the frame
P1FeesChart ==
    /\ pc = "chart"
    /\ pc' = "done"
    /\ UNCHANGED <<timeframe, start_date, end_date, raised, messages, responses>>
    /\ UNCHANGED varsTransferFees
    /\ UNCHANGED varsNotTransferFees

NextTransferFees == P1LoadFees \/ P1FeesChart

SpecTransferFees == InitTransferFees /\ [][NextTransferFees]_vars

(***************************************************************************)
(* st.cache_data: the memoized loaders of the pages.  The cache is one     *)
(* store per decorated function, keyed by the values of the arguments; an  *)
(* entry of a function decorated with ttl=300 is served while it is        *)
(* younger than 300 seconds, an entry of a function decorated without ttl  *)
(* is served for as long as the server runs.  An exception of the wrapped  *)
(* function is not stored.  The answer of a round trip made at time t is   *)
(* written [fn, args, as_of |-> t]; returned is the last call: what it     *)
(* gave, at what time, and whether it came from the store.                 *)
(***************************************************************************)
MaxClock == 300
MaxRoundTrips == 2

\* the widget values the loaders are called with
MemoArgs == DateRanges

\* @st.cache_data(ttl=300) on load_gmp_data; plain @st.cache_data elsewhere
ttl(fn) == IF fn = "load_gmp_data" THEN <<300>> ELSE <<>>

\* a store that is keyed by the function alone
cache_key_name_only(fn, args) == <<fn>>

\* the key of an entry: the decorated function and the values of its arguments
cache_key(fn, args) == <<fn, args>>

\* an entry is served while the clock is before stored_at + ttl
Fresh(e, t) == ttl(e.key[1]) = <<>> \/ t < e.stored_at + ttl(e.key[1])[1]

\* the entries a call of fn(args) at time t is served from
Lookup(fn, args, t) == { e \in cache : e.key = cache_key(fn, args) /\ Fresh(e, t) }

\* what the wrapped function returns from a round trip made at time t: all the
\* records ("ok"), or those of the endpoints that answered 200 ("partial")
Answer(fn, args, outcome, t) ==
    [fn |-> fn, args |-> args, as_of |-> t, complete |-> (outcome = "ok")]

\* the ways a round trip of the wrapped function can end
Outcomes == { "ok", "raised" }

\* load_chain_stats skips an endpoint whose status is not 200 and returns what
\* the other one gave; it raises when requests.get raises or no endpoint gave rows
ChainStatsOutcomes == { "ok", "partial", "raised" }

\* a call of the decorated function: served from the store, or computed by a
\* round trip and stored; a round trip that raises stores nothing
Memoized(fn, args, outcome, exc, shown) ==
    LET hits == Lookup(fn, args, now)
    IN  /\ start_date' = args[1]
        /\ end_date' = args[2]
        /\ IF hits # {}
           THEN /\ returned' = [fn |-> fn, args |-> args, hit |-> TRUE,
                                value |-> (CHOOSE e \in hits : TRUE).value,
                                stored_at |-> (CHOOSE e \in hits : TRUE).stored_at,
                                at |-> now]
                /\ raised' = "none"
                /\ UNCHANGED <<cache, round_trips, messages>>
           ELSE /\ round_trips < MaxRoundTrips
                /\ round_trips' = round_trips + 1
                /\ IF outcome # "raised"
                   THEN /\ cache' = { e \in cache : e.key # cache_key(fn, args) } \cup
                                    { [key |-> cache_key(fn, args), stored_at |-> now,
                                       value |-> Answer(fn, args, outcome, now)] }
                        /\ returned' = [fn |-> fn, args |-> args, hit |-> FALSE,
                                        value |-> Answer(fn, args, outcome, now),
                                        stored_at |-> now, at |-> now]
                        /\ raised' = "none"
                        /\ UNCHANGED messages
                   ELSE /\ raised' = exc
                        /\ messages' = messages \cup shown
                        /\ returned' = <<>>
                        /\ UNCHANGED cache
        /\ UNCHANGED <<pc, timeframe, responses, now>>

InitCache ==
    /\ InitCommon
    /\ pc = "rerun"
    /\ IdlePages
    /\ IdleFetchWindow
    /\ IdleTransferFees
    /\ IdleCache
    /\ IdleLate

\* the clock moves on while no page runs
Elapse ==
    /\ now + 150 <= MaxClock
    /\ now' = now + 150
    /\ UNCHANGED <<pc, timeframe, start_date, end_date, raised, messages, responses>>
    /\ UNCHANGED <<cache, round_trips, returned>>

\* time passes between two reruns of a page
Tick ==
    /\ pc = "rerun"
    /\ Elapse
    /\ UNCHANGED varsNotCache

\* page 4: df = load_gmp_data(its_token, start_date, end_date), inside a try
\* whose handler shows st.error and goes on with an empty frame
CallLoadGmpData ==
    /\ pc = "rerun"
    /\ \E args \in MemoArgs, outcome \in Outcomes :
           Memoized("load_gmp_data", args, outcome, "none",
                    {[level |-> "error", about |-> "GMPChart"]})
    /\ UNCHANGED varsNotCache

\* page 4: transfer_metrics = load_transfer_metrics(start_date, end_date, its_token)
CallLoadTransferMetrics ==
    /\ pc = "rerun"
    /\ \E args \in MemoArgs, outcome \in Outcomes :
           Memoized("load_transfer_metrics", args, outcome, "DatabaseError", {})
    /\ UNCHANGED varsNotCache

\* page 1: df_interchain_stats = load_interchain_stats(start_date, end_date)
CallLoadInterchainStats ==
    /\ pc = "rerun"
    /\ \E args \in MemoArgs, outcome \in Outcomes :
           Memoized("load_interchain_stats", args, outcome, "DatabaseError", {})
    /\ UNCHANGED varsNotCache

\* page 1: df_sources, df_destinations, df_paths = load_chain_stats(start_date, end_date)
CallLoadChainStats ==
    /\ pc = "rerun"
    /\ \E args \in MemoArgs, outcome \in ChainStatsOutcomes :
           Memoized("load_chain_stats", args, outcome, "ConnectionError", {})
    /\ UNCHANGED varsNotCache

NextCache ==
    \/ Tick
    \/ CallLoadGmpData
    \/ CallLoadTransferMetrics
    \/ CallLoadInterchainStats
    \/ CallLoadChainStats

SpecCache == InitCache /\ [][NextCache]_vars

(***************************************************************************)
(* Two user sessions on one server.  Each session has its own widgets and  *)
(* its own script run; the store of st.cache_data belongs to the server    *)
(* process and is read and written by the runs of every session.  owner    *)
(* remembers, for each stored entry, the session whose round trip made it. *)
(***************************************************************************)
Sessions == { "A", "B" }

\* the memoized loaders the two sessions call
SessionLoaders == { "load_gmp_data", "load_interchain_stats" }

InitSessions ==
    /\ InitCommon
    /\ pc = "rerun"
    /\ IdlePages
    /\ IdleFetchWindow
    /\ IdleTransferFees
    /\ IdleCache
    /\ IdlePayload
    /\ session = "none"
    /\ owner = [k \in SessionLoaders \X MemoArgs |-> "none"]
    /\ IdleUsers
    /\ IdleTokens

\* the run of session s called fn(args): a round trip that stored its answer
\* makes s the owner of the entry
RunOf(s, fn, args, outcome) ==
    /\ session' = s
    /\ owner' = IF Lookup(fn, args, now) = {} /\ outcome # "raised"
                THEN [owner EXCEPT ![<<fn, args>>] = s]
                ELSE owner

\* page 4 in session s: df = load_gmp_data(its_token, start_date, end_date)
SessionLoadGmpData ==
    /\ pc = "rerun"
    /\ \E s \in Sessions, args \in MemoArgs, outcome \in Outcomes :
           /\ Memoized("load_gmp_data", args, outcome, "none",
                       {[level |-> "error", about |-> "GMPChart"]})
           /\ RunOf(s, "load_gmp_data", args, outcome)
    /\ UNCHANGED varsNotSessions

\* page 1 in session s: df_interchain_stats = load_interchain_stats(start_date, end_date)
SessionLoadInterchainStats ==
    /\ pc = "rerun"
    /\ \E s \in Sessions, args \in MemoArgs, outcome \in Outcomes :
           /\ Memoized("load_interchain_stats", args, outcome, "DatabaseError", {})
           /\ RunOf(s, "load_interchain_stats", args, outcome)
    /\ UNCHANGED varsNotSessions

\* time passes between the runs of the sessions
SessionTick ==
    /\ pc = "rerun"
    /\ Elapse
    /\ UNCHANGED <<session, owner>>
    /\ UNCHANGED varsNotSessions

NextSessions == SessionTick \/ SessionLoadGmpData \/ SessionLoadInterchainStats

SpecSessions == InitSessions /\ [][NextSessions]_vars

(***************************************************************************)
(* Users over time (page 1) and deployers over time (deployments page).    *)
(* A row of fact_gmp that passes the WHERE filters is [created_at, id,     *)
(* user]: the day it was created and the address data:call.transaction.from*)
(* (NULL when the record has none).                                        *)
(***************************************************************************)
UserFactRows ==
    { [created_at |-> d, id |-> i, user |-> u] :
        d \in {19680, 19688, 19692, 19695},
        i \in {"0x01", "0x02", "0x03"},
        u \in { Str("0xaa"), Str("0xbb"), Null } }

RECURSIVE UserTablesUpTo(_)
\* the tables of at most n rows, one row per id
UserTablesUpTo(n) ==
    IF n = 0 THEN { {} }
    ELSE LET T == UserTablesUpTo(n - 1)
         IN  T \cup UNION { { t \cup {r} :
                                  r \in { x \in UserFactRows : \A y \in t : y.id # x.id } } :
                             t \in T }

\* tab1: select user, min(created_at::date) ... group by 1, over the whole table
first_txn_date(table) ==
    { [user |-> u,
       first |-> CHOOSE d \in { r.created_at : r \in { x \in table : x.user = u } } :
                     \A r \in { x \in table : x.user = u } : d <= r.created_at] :
        u \in { r.user : r \in table } }

\* count(distinct user) per date_trunc(timeframe, first date), for the first
\* dates inside the range: a function from the bucket to the count
NewPerBucket(table, tf, first_day, last_day) ==
    LET kept == { t \in first_txn_date(table) : first_day <= t.first /\ t.first <= last_day }
    IN  [d \in { date_trunc(tf, t.first) : t \in kept } |->
            count_distinct({ t.user : t \in { x \in kept : date_trunc(tf, x.first) = d } })]

\* count(distinct user) per date_trunc(timeframe, created_at), for the rows
\* created inside the range
TotalPerBucket(table, tf, first_day, last_day) ==
    LET kept == { r \in table : first_day <= r.created_at /\ r.created_at <= last_day }
    IN  [d \in { date_trunc(tf, r.created_at) : r \in kept } |->
            count_distinct({ r.user : r \in { x \in kept : date_trunc(tf, x.created_at) = d } })]

\* a - b in SQL: NULL when either side is NULL
sql_minus(a, b) == IF IsNa(a) \/ IsNa(b) THEN Null ELSE N(a.m - b.m)

\* load_interchain_users_data: the new users' buckets, left-joined to the totals
load_interchain_users_data(table, tf, first_day, last_day) ==
    LET new == NewPerBucket(table, tf, first_day, last_day)
        total == TotalPerBucket(table, tf, first_day, last_day)
        dates == SortedDays(DOMAIN new)
        Total(d) == IF d \in DOMAIN total THEN N(total[d]) ELSE Null
    IN  [i \in 1..Len(dates) |->
            [Date |-> dates[i],
             New |-> N(new[dates[i]]),
             Total |-> Total(dates[i]),
             Returning |-> sql_minus(Total(dates[i]), N(new[dates[i]])),
             UserGrowth |-> N(SumSeq([j \in 1..i |-> new[dates[j]]])),
             GrowthRate |-> IF IsNa(Total(dates[i])) THEN Null
                            ELSE IF Total(dates[i]).m = 0 THEN NaN
                            ELSE N((2 * 1000 * new[dates[i]] + Total(dates[i]).m)
                                       \div (2 * Total(dates[i]).m))]]

\* "New Users" / "Total Users" with "Total Users" = 0: the warehouse fails the
\* query with a division by zero
users_query_fails(table, tf, first_day, last_day) ==
    LET frame == load_interchain_users_data(table, tf, first_day, last_day)
    IN  \E i \in 1..Len(frame) : frame[i].GrowthRate = NaN

\* load_deployers_overtime: the totals' buckets, left-joined to the new deployers
load_deployers_overtime(table, tf, first_day, last_day) ==
    LET new == NewPerBucket(table, tf, first_day, last_day)
        total == TotalPerBucket(table, tf, first_day, last_day)
        dates == SortedDays(DOMAIN total)
        New(d) == IF d \in DOMAIN new THEN N(new[d]) ELSE Null
    IN  [i \in 1..Len(dates) |->
            [Date |-> dates[i],
             Total |-> N(total[dates[i]]),
             New |-> New(dates[i]),
             Returning |-> sql_minus(N(total[dates[i]]), New(dates[i]))]]

InitUsers ==
    /\ InitCommon
    /\ pc = "load"
    /\ IdlePages
    /\ IdleFetchWindow
    /\ IdleTransferFees
    /\ IdleCache
    /\ IdlePayload
    /\ IdleSessions
    /\ IdleUsers
    /\ IdleTokens

\* page 1: df_interchain_users_data = load_interchain_users_data(timeframe,
\* start_date, end_date); pd.read_sql is not guarded
P1LoadUsers ==
    /\ pc = "load"
    /\ \E table \in UserTablesUpTo(MaxRows), answers \in BOOLEAN :
          IF answers /\ ~users_query_fails(table, timeframe, start_date, end_date)
          THEN /\ fact_users' = table
               /\ df_interchain_users_data' =
                      load_interchain_users_data(table, timeframe, start_date, end_date)
               /\ pc' = "users"
               /\ UNCHANGED raised
          ELSE /\ fact_users' = table
               /\ Raise("DatabaseError")
               /\ UNCHANGED df_interchain_users_data
    /\ UNCHANGED <<timeframe, start_date, end_date, messages, responses>>
    /\ UNCHANGED df_deployers_overtime
    /\ UNCHANGED varsNotUsers

\* deployments page: df_deployers_overtime = load_deployers_overtime(timeframe,
\* start_date, end_date); pd.read_sql is not guarded
P2LoadDeployers ==
    /\ pc = "load"
    /\ \E table \in UserTablesUpTo(MaxRows), answers \in BOOLEAN :
          IF answers
          THEN /\ fact_users' = table
               /\ df_deployers_overtime' =
                      load_deployers_overtime(table, timeframe, start_date, end_date)
               /\ pc' = "deployers"
               /\ UNCHANGED raised
          ELSE /\ fact_users' = table
               /\ Raise("DatabaseError")
               /\ UNCHANGED df_deployers_overtime
    /\ UNCHANGED <<timeframe, start_date, end_date, messages, responses>>
    /\ UNCHANGED df_interchain_users_data
    /\ UNCHANGED varsNotUsers

NextUsers == P1LoadUsers \/ P2LoadDeployers

SpecUsers == InitUsers /\ [][NextUsers]_vars

(***************************************************************************)
(* The ITS tokens table and its two top-10 charts (pages/4_test.py).       *)
(***************************************************************************)
TopN == 10

\* addr.lower()
Lower(a) == IF a = "0xAA" THEN "0xaa" ELSE IF a = "0xBB" THEN "0xbb" ELSE a

TokenRows ==
    { [key |-> k, num_txs |-> n, volume |-> v] :
        k \in {"0xAA", "0xbb", "0xcc"}, n \in {1, 5}, v \in {0, 7} }

\* what getITSAssets can list: each address once, one address under two
\* assets in two spellings, nothing
AssetLists ==
    { << [symbol |-> "AXL", image |-> "axl.png", addresses |-> <<"0xaa">>],
         [symbol |-> "USDC", image |-> "usdc.png", addresses |-> <<"0xBB">>] >>,
      << [symbol |-> "AXL", image |-> "axl.png", addresses |-> <<"0xaa", "0xbb">>],
         [symbol |-> "wAXL", image |-> "", addresses |-> <<"0xAA">>] >>,
      << >> }

\* address_to_symbol[addr.lower()] = symbol, asset after asset: the last asset
\* that lists the address wins; .map(...).fillna("Unknown") for an unlisted one
address_to_symbol(assets, addr) ==
    LET listing == { i \in 1..Len(assets) :
                       \E j \in 1..Len(assets[i].addresses) :
                           Lower(assets[i].addresses[j]) = addr }
    IN  IF listing = {} THEN "Unknown"
        ELSE assets[CHOOSE i \in listing : \A j \in listing : j <= i].symbol

\* symbol_to_image[symbol] = image; .map(...).fillna("")
symbol_to_image(assets, symbol) ==
    LET having == { i \in 1..Len(assets) : assets[i].symbol = symbol }
    IN  IF having = {} THEN ""
        ELSE assets[CHOOSE i \in having : \A j \in having : j <= i].image

\* the frame load_data builds from the two answers
load_data(tx, assets) ==
    [i \in 1..Len(tx) |->
        [TokenAddress |-> tx[i].key,
         Symbol |-> address_to_symbol(assets, Lower(tx[i].key)),
         Logo |-> symbol_to_image(assets, address_to_symbol(assets, Lower(tx[i].key))),
         NumberOfTransfers |-> tx[i].num_txs,
         VolumeOfTransfers |-> tx[i].volume]]

\* df[df["Symbol"] != "Unknown"].groupby("Symbol", as_index=False).agg(sum)
df_grouped(frame) ==
    { [Symbol |-> sym,
       NumberOfTransfers |->
           SumSeq([i \in 1..Len(frame) |->
                      IF frame[i].Symbol = sym THEN frame[i].NumberOfTransfers ELSE 0]),
       VolumeOfTransfers |->
           SumSeq([i \in 1..Len(frame) |->
                      IF frame[i].Symbol = sym THEN frame[i].VolumeOfTransfers ELSE 0])] :
        sym \in { frame[i].Symbol : i \in 1..Len(frame) } \ {"Unknown"} }

\* sort_values(col, ascending=False): any order that descends (the sort is not
\* stable, rows that tie come in either order)
sort_values_desc(rows, col) ==
    { f \in [1..Cardinality(rows) -> rows] :
        /\ \A a, b \in 1..Cardinality(rows) : a # b => f[a] # f[b]
        /\ \A a, b \in 1..Cardinality(rows) : a < b => f[a][col] >= f[b][col] }

\* .head(n)
head(rows, n) == SubSeq(rows, 1, IF Len(rows) < n THEN Len(rows) ELSE n)

InitTokens ==
    /\ InitCommon
    /\ pc = "load"
    /\ IdlePages
    /\ IdleFetchWindow
    /\ IdleTransferFees
    /\ IdleCache
    /\ IdlePayload
    /\ IdleSessions
    /\ IdleUsers
    /\ IdleTokens

\* df, symbol_to_image = load_data(start_date, end_date), then the empty check;
\* requests.get is not guarded
P4TLoadData ==
    /\ pc = "load"
    /\ \/ /\ responses' = Append(responses, [kind |-> "error", data |-> <<>>])
          /\ Raise("ConnectionError")
          /\ UNCHANGED <<messages, tx_data, assets_data, df_tokens>>
       \/ \E tx \in UNION { [1..n -> TokenRows] : n \in 0..MaxRows }, assets \in AssetLists :
          /\ responses' = Append(responses, [kind |-> "ok", data |-> tx])
          /\ tx_data' = tx
          /\ assets_data' = assets
          /\ df_tokens' = load_data(tx, assets)
          /\ IF tx = <<>>
             THEN /\ messages' = messages \cup {[level |-> "warning", about |-> "no data"]}
                  /\ pc' = "done"
             ELSE /\ pc' = "charts"
                  /\ UNCHANGED messages
          /\ UNCHANGED raised
    /\ UNCHANGED <<timeframe, start_date, end_date, top_volume, top_transfers>>
    /\ UNCHANGED varsNotTokens

\* top_volume and top_transfers: the grouped frame without "Unknown", the
\* second chart without the symbols whose volume is not positive
P4TCharts ==
    /\ pc = "charts"
    /\ \E by_volume \in sort_values_desc(df_grouped(df_tokens), "VolumeOfTransfers"),
          by_count \in sort_values_desc({ g \in df_grouped(df_tokens) : g.VolumeOfTransfers > 0 },
                                        "NumberOfTransfers") :
          /\ top_volume' = head(by_volume, TopN)
          /\ top_transfers' = head(by_count, TopN)
    /\ pc' = "done"
    /\ UNCHANGED <<timeframe, start_date, end_date, raised, messages, responses>>
    /\ UNCHANGED <<tx_data, assets_data, df_tokens>>
    /\ UNCHANGED varsNotTokens

NextTokens == P4TLoadData \/ P4TCharts

SpecTokens == InitTokens /\ [][NextTokens]_vars

(***************************************************************************)
(* The shapes of a JSON body.  The provider answers with an object that    *)
(* holds the records under "data", with a bare list of the records, or     *)
(* with an object that has no "data"; each HTTP loader reads the body its  *)
(* own way.                                                                *)
(***************************************************************************)
PayloadRecords == { "r1", "r2", "r3" }

Payloads ==
    { [shape |-> sh, records |-> recs] :
        sh \in {"object_data", "list", "object_other"},
        recs \in UNION { [1..n -> PayloadRecords] : n \in 0..MaxRows } }

\* page 3 fetch_gmp_data: payload["data"] of a dict that has it, a list as it
\* is, an empty frame otherwise
payload_fetch_gmp_data(body) ==
    IF body.shape = "object_data" THEN [raised |-> "none", data |-> body.records]
    ELSE IF body.shape = "list" THEN [raised |-> "none", data |-> body.records]
    ELSE [raised |-> "none", data |-> <<>>]

\* page 4 load_gmp_data: payload.get("data", []) if isinstance(payload, dict) else []
payload_load_gmp_data(body) ==
    IF body.shape = "object_data" THEN [raised |-> "none", data |-> body.records]
    ELSE [raised |-> "none", data |-> <<>>]

\* page 2 load_data: requests.get(url_tx).json().get("data", []); a list has no get
payload_load_data(body) ==
    IF body.shape = "object_data" THEN [raised |-> "none", data |-> body.records]
    ELSE IF body.shape = "list" THEN [raised |-> "AttributeError", data |-> <<>>]
    ELSE [raised |-> "none", data |-> <<>>]

\* what a loader makes of a body
ReadBody(loader, body) ==
    IF loader = "fetch_gmp_data" THEN payload_fetch_gmp_data(body)
    ELSE IF loader = "load_gmp_data" THEN payload_load_gmp_data(body)
    ELSE payload_load_data(body)

InitPayload ==
    /\ InitCommon
    /\ pc = "fetch"
    /\ IdlePages
    /\ IdleFetchWindow
    /\ IdleTransferFees
    /\ IdleCache
    /\ payload \in Payloads
    /\ loaded = <<>>
    /\ IdleSessions
    /\ IdleUsers
    /\ IdleTokens

\* page 3: raw = fetch_gmp_data(...)
ReadFetchGmpData ==
    /\ pc = "fetch"
    /\ loaded' = [loader |-> "fetch_gmp_data", got |-> payload_fetch_gmp_data(payload)]
    /\ raised' = payload_fetch_gmp_data(payload).raised
    /\ pc' = "done"
    /\ UNCHANGED <<timeframe, start_date, end_date, messages, responses, payload>>
    /\ UNCHANGED varsNotPayload

\* page 4: df = load_gmp_data(...)
ReadLoadGmpData ==
    /\ pc = "fetch"
    /\ loaded' = [loader |-> "load_gmp_data", got |-> payload_load_gmp_data(payload)]
    /\ raised' = payload_load_gmp_data(payload).raised
    /\ pc' = "done"
    /\ UNCHANGED <<timeframe, start_date, end_date, messages, responses, payload>>
    /\ UNCHANGED varsNotPayload

\* page 2: df = load_data(start_date, end_date); nothing catches what it raises
ReadLoadData ==
    /\ pc = "fetch"
    /\ loaded' = [loader |-> "load_data", got |-> payload_load_data(payload)]
    /\ raised' = payload_load_data(payload).raised
    /\ pc' = IF payload_load_data(payload).raised = "none" THEN "done" ELSE "crashed"
    /\ UNCHANGED <<timeframe, start_date, end_date, messages, responses, payload>>
    /\ UNCHANGED varsNotPayload

NextPayload == ReadFetchGmpData \/ ReadLoadGmpData \/ ReadLoadData

SpecPayload == InitPayload /\ [][NextPayload]_vars

(***************************************************************************)
(* Properties of the Interchain Transfers page (SpecTransfers).            *)
(***************************************************************************)

\* C1: whenever a fetch ends with a non-success status or a request error,
\* the fetch yields no frame, a message about that endpoint is shown and no
\* exception escapes to the page run, also when every endpoint fails.
C1_FetchFailureIsWarnedNotRaised ==
    \A i \in 1..Len(responses) :
        responses[i].kind \in {"error", "status"}
            => /\ raised = "none"
               /\ \E msg \in messages : msg.about = api_urls[i]

\* C2: a run whose fetches all succeed with an empty data list raises no
\* exception, and ends with an empty aggregate table and a warning.
C2_EmptyFetchGivesEmptyTableAndWarning ==
    (/\ responses # <<>>
     /\ \A i \in 1..Len(responses) : responses[i].kind = "ok" /\ responses[i].data = <<>>)
        => /\ raised = "none"
           /\ pc = "done" => (agg_df = <<>> /\ \E msg \in messages : msg.level = "warning")

\* C7: the buckets of agg_df ascend strictly by bucket start, and each
\* cumulative value is the sum of the per-bucket values of that bucket and
\* all earlier ones; at the last bucket it is the sum over all buckets.
C7_CumulativeIsPrefixSum ==
    pc \in {"kpis", "done"} =>
        /\ \A i \in 1..(Len(agg_df) - 1) : NumLess(agg_df[i].period, agg_df[i + 1].period)
        /\ \A i \in 1..Len(agg_df) :
            /\ agg_df[i].cum_num_txs = SumSeq([j \in 1..i |-> agg_df[j].num_txs])
            /\ agg_df[i].cum_volume = SumSeq([j \in 1..i |-> agg_df[j].volume])
        /\ agg_df # <<>> =>
            /\ agg_df[Len(agg_df)].cum_num_txs = SumSeq([j \in 1..Len(df_all) |-> df_all[j].num_txs])
            /\ agg_df[Len(agg_df)].cum_volume = SumSeq([j \in 1..Len(df_all) |-> df_all[j].volume])

\* a finished run with three buckets or more, all with a volume
C7_Witness ==
    /\ pc = "done"
    /\ Len(agg_df) >= 3
    /\ \A i \in 1..Len(agg_df) : agg_df[i].volume > 0
    /\ agg_df[Len(agg_df)].cum_volume > agg_df[Len(agg_df) - 1].cum_volume

(***************************************************************************)
(* Properties of the ITS Token Monitoring page (SpecTokenMonitoring).      *)
(***************************************************************************)

\* C3: the fee of every normalized row is the first non-null of
\* base_fee_usd, express_fee_usd and gas_used_amount * token price, null
\* when all three are null; 0 counts as a value; nothing is added together.
C3_FeeIsFirstNonNull ==
    \A i \in 1..Len(df) :
        LET r == df[i].rec
            base == IF r.fees.k = "dict" THEN r.fees.base_fee_usd ELSE Null
            express == IF r.fees.k = "dict" THEN r.fees.express_fee_usd ELSE Null
            gas == IF r.gas_used_amount.k = "num" /\ r.token_price_usd.k = "num"
                   THEN N(r.gas_used_amount.m * r.token_price_usd.m) ELSE Null
        IN  df[i].fee = (IF base.k = "num" THEN base
                         ELSE IF express.k = "num" THEN express
                         ELSE gas)

\* C4: no group key of the per-path and per-period-and-path tables holds
\* the placeholder "Unknown".
C4_NoUnknownGroupKey ==
    /\ \A r \in period_path : r.path[1] # "Unknown" /\ r.path[2] # "Unknown"
    /\ \A r \in path_group : r.path[1] # "Unknown" /\ r.path[2] # "Unknown"

\* C5: every bucket (and every bucket and path) that has a normalized row
\* has exactly one aggregate row, whose transfer count is the number of
\* distinct record ids in the group.
C5_OneRowPerGroupCountingDistinctIds ==
    pc \in {"kpis", "done"} =>
        /\ \A i \in 1..Len(df) :
            /\ Cardinality({ r \in period_agg : r.period = df[i].period }) = 1
            /\ Cardinality({ r \in period_path :
                               r.period = df[i].period /\ r.path = df[i].path }) = 1
        /\ \A r \in period_agg :
            r.total_txs = Cardinality({ df[i].rec.id : i \in { j \in 1..Len(df) : df[j].period = r.period } })
        /\ \A r \in period_path :
            r.tx_count = Cardinality({ df[i].rec.id :
                            i \in { j \in 1..Len(df) : df[j].period = r.period /\ df[j].path = r.path } })

RECURSIVE SumOver(_, _)
\* the sum of column col over the rows of the table S
SumOver(S, col) ==
    IF S = {} THEN 0
    ELSE LET r == CHOOSE x \in S : TRUE IN r[col] + SumOver(S \ {r}, col)

\* C6 as stated: for every bucket and each of the metrics, distinct senders
\* included, the per-path values add up to the bucket's value.
C6_EveryMetricAddsUpOverPaths ==
    pc \in {"kpis", "done"} =>
        \A r \in period_agg :
            LET parts == { q \in period_path : q.period = r.period }
            IN  /\ SumOver(parts, "tx_count") = r.total_txs
                /\ SumOver(parts, "volume") = r.total_volume
                /\ SumOver(parts, "fees") = r.total_fees
                /\ SumOver(parts, "users") = r.unique_users

\* C6, amended: for every bucket the per-path transfer counts, volumes and
\* fees add up to the bucket's; the per-path distinct sender counts add up
\* to at least the bucket's distinct senders and to at most its rows.
C6_SumsAddUpSendersBound ==
    pc \in {"kpis", "done"} =>
        \A r \in period_agg :
            LET parts == { q \in period_path : q.period = r.period }
                rows == { i \in 1..Len(df) : df[i].period = r.period }
            IN  /\ SumOver(parts, "tx_count") = r.total_txs
                /\ SumOver(parts, "volume") = r.total_volume
                /\ SumOver(parts, "fees") = r.total_fees
                /\ SumOver(parts, "users") >= r.unique_users
                /\ SumOver(parts, "users") <= Cardinality(rows)

\* one sender on two paths in one bucket: counted once in the bucket, twice over its paths
C6_Witness ==
    /\ pc = "done"
    /\ \E r \in period_agg :
        LET parts == { q \in period_path : q.period = r.period }
        IN  /\ Cardinality(parts) = 2
            /\ r.unique_users = 1
            /\ SumOver(parts, "users") = 2
            /\ r.total_txs = 2


\* C11: every normalized row carries a timestamp parsed from a timestamp
\* field of its own record; a record without a usable timestamp has no row,
\* and no row is given the epoch in its place.
C11_TimestampFromOwnRecordElseDropped ==
    pc \in {"check", "aggregate", "kpis", "done", "stopped"} =>
        /\ \A j \in 1..Len(df) :
            /\ df[j].timestamp # NaT
            /\ df[j].timestamp # Num(0, 0)
            /\ \E k \in 1..Len(df[j].rec.ts_candidates) :
                  LET c == df[j].rec.ts_candidates[k]
                  IN  c.k = "num" /\ df[j].timestamp = to_datetime(Num(c.m, c.e), "s")
        /\ \A i \in 1..Len(raw) :
            (\A k \in 1..Len(raw[i].ts_candidates) : raw[i].ts_candidates[k].k # "num")
                => \A j \in 1..Len(df) : df[j].rec # raw[i]

\* two records fetched, one without any timestamp field: one row is left
C11_Witness ==
    /\ pc = "done"
    /\ Len(raw) = 2
    /\ Len(df) = 1
    /\ \E i \in 1..2 : raw[i].ts_candidates = <<>>

\* C12: a record whose timestamp is an ISO date-time text is kept, with the
\* instant the text denotes.
C12_IsoTextTimestampIsKept ==
    pc \in {"check", "aggregate", "kpis", "done", "stopped"} =>
        \A i \in 1..Len(raw) :
            LET cands == raw[i].ts_candidates
            IN  (cands # <<>> /\ cands[1].k = "str" /\ parse_text(cands[1].s) # NaT)
                    => \E j \in 1..Len(df) :
                          df[j].rec = raw[i] /\ df[j].timestamp = parse_text(cands[1].s)

\* C13: a record none of whose fee fields is present has a null fee, and
\* the fee total of every group is the sum over its rows with a fee.
C13_AbsentFeeIsNullAndLeftOutOfSums ==
    pc \in {"kpis", "done"} =>
        /\ \A j \in 1..Len(df) :
            LET r == df[j].rec
            IN  (/\ IsNa(r.gas_used_amount)
                 /\ \/ r.fees.k # "dict"
                    \/ /\ IsNa(r.fees.base_fee_usd) /\ IsNa(r.fees.express_fee_usd)
                       /\ IsNa(r.fees.express_fee) /\ IsNa(r.fees.fee))
                    => df[j].fee = Null
        /\ \A g \in period_agg :
            LET rows == { j \in 1..Len(df) : df[j].period = g.period /\ df[j].fee.k = "num" }
            IN  g.total_fees = SumSeq([j \in 1..Len(df) |-> IF j \in rows THEN df[j].fee.m ELSE 0])
        /\ \A g \in period_path :
            LET rows == { j \in 1..Len(df) :
                            df[j].period = g.period /\ df[j].path = g.path /\ df[j].fee.k = "num" }
            IN  g.fees = SumSeq([j \in 1..Len(df) |-> IF j \in rows THEN df[j].fee.m ELSE 0])

\* a group of a row without fee fields and a row with a fee: the total is that fee
C13_Witness ==
    /\ pc = "done"
    /\ Len(df) = 2
    /\ df[1].period = df[2].period
    /\ \E i, j \in 1..2 :
          /\ df[i].fee = Null
          /\ df[i].rec.fees.k = "dict"
          /\ df[j].fee.k = "num"
          /\ \E g \in period_agg : g.total_fees = df[j].fee.m /\ g.total_fees > 0

\* C15: preprocess completes without raising, whatever the shape of the
\* records: a missing alternate chain column resolves to null.
C15_PreprocessNeverRaises ==
    raised = "none" /\ pc # "crashed"

(***************************************************************************)
(* Properties of the Monitoring ITS Tokens page                            *)
(* (SpecMonitoringSQL, SpecMonitoringAPI).                                 *)
(***************************************************************************)

\* C8: every row of the share table holds its metric divided by the total
\* of the metric over the paths of its date; when that total is zero the
\* share is NaN, not zero, and the run has raised nothing.
C8_ShareIsMetricOverBucketTotal ==
    pc = "done" =>
        /\ raised = "none"
        /\ \A r \in df_norm :
            LET bucket == { q \in df_timeseries : q.date = r.date }
                total == SumCells(bucket, "transfers_volume_native_token")
                metric == r.transfers_volume_native_token
            IN  IF metric.k # "num" \/ total = 0
                THEN r.share.k = "nan"
                ELSE /\ r.share.k = "ratio"
                     /\ r.share.den > 0
                     /\ r.share.num * total = metric.m * r.share.den

\* a date whose rounded volumes total zero next to a date with a proper share
C8_Witness ==
    /\ pc = "done"
    /\ \E r \in df_norm :
          /\ r.transfers_volume_native_token = N(0)
          /\ r.total = 0
          /\ r.share.k = "nan"
    /\ \E r \in df_norm : r.share.k = "ratio" /\ r.share.num > 0

\* C9: every numeric timestamp is read in the unit of its own magnitude
\* (ns above 1e18, us above 1e15, ms above 1e12, else s), whatever the
\* other rows of the answer hold.
C9_UnitFromOwnMagnitude ==
    (responses # <<>> /\ timestamp_col # <<>>) =>
        \A i \in 1..Len(timestamp_col) :
            LET c == responses[1].data[i].timestamp
            IN  c.k = "num" =>
                    timestamp_col[i] = to_datetime(Num(c.m, c.e), unit_of(Num(c.m, c.e)))

\* C10: the encodings of one instant in seconds, milli-, micro- and
\* nanoseconds all normalise to that instant.
C10_EncodingsOfOneInstantAgree ==
    (responses # <<>> /\ timestamp_col # <<>>) =>
        \A i \in 1..Len(timestamp_col) :
            LET c == responses[1].data[i].timestamp
            IN  c.k = "num" => timestamp_col[i] = to_datetime(Num(c.m, 0), "s")


\* C14: every amount or volume of a normalized row is the numeric coercion
\* of its source field or null: a zero in the frame is a zero of the source,
\* never the stand-in of a missing or non-numeric value.
C14_MissingValueIsNotZero ==
    (responses # <<>> /\ responses[1].kind = "ok") =>
        \A j \in 1..Len(df) :
            /\ df[j].volume = 0 =>
                  \E i \in 1..Len(responses[1].data) : responses[1].data[i].volume = N(0)
            /\ df[j].num_txs = 0 =>
                  \E i \in 1..Len(responses[1].data) : responses[1].data[i].num_txs = N(0)

\* total_num_txs = int(df_agg['num_txs'].sum()), total_volume = float(df_agg['volume'].sum())
kpi_total(frame, col) == SumSeq([i \in 1..Len(frame) |-> frame[i][col]])

\* C28: bucketing conserves totals: for every timeframe the KPI totals over the
\* buckets of df_agg are the sums of num_txs and of volume over the rows of df.
C28_BucketingConservesTotals ==
    pc \in {"chart", "done", "sql"} =>
        /\ kpi_total(df_agg, "num_txs") = SumSeq([i \in 1..Len(df) |-> df[i].num_txs])
        /\ kpi_total(df_agg, "volume") = SumSeq([i \in 1..Len(df) |-> df[i].volume])

\* two rows that count fell into one bucket
C28_Witness ==
    /\ pc = "done"
    /\ Len(df) = 2
    /\ Len(df_agg) = 1
    /\ df[1].num_txs > 0 /\ df[2].num_txs > 0
    /\ df_agg[1].num_txs = df[1].num_txs + df[2].num_txs

\* C17: for the selected granularity (day, week or month) the bucket keys
\* of the aggregate are the starts of the days, weeks or months that hold
\* the rows.
C17_BucketKeyIsTruncation ==
    pc \in {"chart", "done"} =>
        LET trunc(ts) ==
                IF timeframe = "day" THEN Midnight(DateOf(ts))
                ELSE IF timeframe = "week" THEN Midnight(WeekStart(DateOf(ts)))
                ELSE Midnight(MonthStart(DateOf(ts)))
        IN  { df_agg[k].timestamp : k \in 1..Len(df_agg) }
                = { trunc(df[i].timestamp) : i \in 1..Len(df) }


(***************************************************************************)
(* Properties of the fetch window (SpecFetchWindow).                       *)
(***************************************************************************)

\* C16: the records a fetch returns are exactly those whose instant falls
\* on a calendar date d with start_date <= d <= end_date; a record at any
\* time of the end date is among them.
C16_FetchedAreTheRecordsOfTheRange ==
    pc = "done" =>
        fetched = { t \in backend :
                      start_date <= t \div SecondsPerDay /\ t \div SecondsPerDay <= end_date }


(***************************************************************************)
(* Properties of the transfer fees over time (SpecTransferFees)            *)
(***************************************************************************)

\* C18: no record outside the selected date range contributes to the loaded
\* frame: the frame is the one the rows created in [start_date, end_date] give.
C18_OnlyRowsOfTheRangeContribute ==
    pc \in {"chart", "done"} =>
        df_interchain_fees_data =
            load_interchain_fees_data(
                { r \in fact_fees : start_date <= r.created_at /\ r.created_at <= end_date },
                timeframe, start_date, end_date)


(***************************************************************************)
(* Properties of the memoized loaders (SpecCache)                          *)
(***************************************************************************)

\* C19: a call of a memoized loader that finds an entry of its own function and
\* argument values inside the time-to-live window returns that entry's result
\* and makes no round trip; a result that came without a round trip was stored
\* for the same function and the same argument values.
C19_HitServesOwnEntryWithoutRoundTrip ==
    [][ returned' # returned /\ returned' # <<>> =>
          /\ (\E e \in cache : e.key = <<returned'.fn, returned'.args>> /\ Fresh(e, now)) =>
                 /\ round_trips' = round_trips
                 /\ \E e \in cache : /\ e.key = <<returned'.fn, returned'.args>>
                                     /\ e.value = returned'.value
          /\ returned'.value.fn = returned'.fn
          /\ returned'.value.args = returned'.args
          /\ round_trips' = round_trips =>
                 \E e \in cache : /\ e.value = returned'.value
                                  /\ e.value.fn = returned'.fn
                                  /\ e.value.args = returned'.args ]_vars

\* a loader with ttl=300 was served, 150 seconds after the round trip, while the
\* store also holds an entry of another loader or of other argument values
C19_Witness ==
    /\ returned # <<>>
    /\ returned.hit
    /\ returned.fn = "load_gmp_data"
    /\ returned.stored_at < returned.at
    /\ \E e \in cache : e.value.fn # returned.fn \/ e.value.args # returned.args

\* C25: a memoized loader stores a result only when every request of the
\* round trip succeeded: no entry of the store holds a partial result, and
\* neither does a result served from the store.
C25_OnlyCompleteResultsAreStored ==
    /\ \A e \in cache : e.value.complete
    /\ returned # <<>> /\ returned.hit => returned.value.complete

\* C20: every memoized result is evicted a fixed time-to-live after it was
\* stored: whatever the loader, a result that is served from the store is
\* younger than the time-to-live (the 300 seconds the code declares).
C20_ServedResultIsYoungerThanTtl ==
    returned # <<>> /\ returned.hit =>
        returned.at - returned.stored_at < ttl("load_gmp_data")[1]


(***************************************************************************)
(* Properties of the stages of a page run                                  *)
(***************************************************************************)

\* C21: when the fetch of a page run returns an empty result, a warning is
\* shown and no later load, aggregate or chart of that run executes: the run
\* never gets past the block that showed the warning.
C21_EmptyFetchStopsTheRun ==
    (/\ responses # <<>>
     /\ responses[1].kind = "ok"
     /\ responses[1].data = <<>>)
        => /\ pc \in {"done", "sql", "crashed"} =>
                  \E msg \in messages : msg.level = "warning"
           /\ Len(responses) = 1


\* C22: within one page run the fetch makes a single attempt: at most one
\* request is issued, and once it has been answered, failed or not, the run
\* is never back at the fetch.
C22_OneAttemptPerRun ==
    /\ Len(responses) <= 1
    /\ responses # <<>> => pc # "fetch"

\* the request failed and the run went on to its end without asking again
C22_Witness ==
    /\ Len(responses) = 1
    /\ responses[1].kind = "error"
    /\ pc = "stopped"


(***************************************************************************)
(* Properties of the payload shapes (SpecPayload)                          *)
(***************************************************************************)

\* C23: a body that is an object holding the records under "data" and a body
\* that is a bare list of the same records give the same raw records: what a
\* loader made of one shape is what it makes of the other.
C23_ObjectAndListGiveTheSameRecords ==
    loaded # <<>> /\ payload.shape \in {"object_data", "list"} =>
        /\ loaded.got = ReadBody(loaded.loader, [payload EXCEPT !.shape = "object_data"])
        /\ loaded.got = ReadBody(loaded.loader, [payload EXCEPT !.shape = "list"])


(***************************************************************************)
(* Properties of two sessions on one server (SpecSessions)                 *)
(***************************************************************************)

\* C24: what a session's run is given depends on that session's selections and
\* on the backend only: it is the backend's answer at the time of the call, or
\* a result that an earlier run of the same session stored; never a result
\* that is there because the other session asked before.
C24_ResultOwesNothingToTheOtherSession ==
    returned # <<>> =>
        \/ returned.value.as_of = returned.at
        \/ owner[<<returned.fn, returned.args>>] = session


(***************************************************************************)
(* Properties of the users and deployers over time (SpecUsers)             *)
(***************************************************************************)

\* the series a run has loaded
LoadedSeries ==
    IF pc = "users" THEN df_interchain_users_data
    ELSE IF pc = "deployers" THEN df_deployers_overtime
    ELSE <<>>

\* C26: every bucket of the selected range that has an active user (deployer)
\* is exactly one row of the series, and in every row New, Returning and Total
\* are non-null and non-negative with New + Returning = Total.
C26_EveryActiveBucketIsOneCompleteRow ==
    pc \in {"users", "deployers"} =>
        /\ \A r \in fact_users :
              (start_date <= r.created_at /\ r.created_at <= end_date /\ ~IsNa(r.user)) =>
                  Cardinality({ i \in 1..Len(LoadedSeries) :
                                  LoadedSeries[i].Date = date_trunc(timeframe, r.created_at) }) = 1
        /\ \A i \in 1..Len(LoadedSeries) :
              LET row == LoadedSeries[i]
              IN  /\ ~IsNa(row.New) /\ ~IsNa(row.Returning) /\ ~IsNa(row.Total)
                  /\ row.New.m >= 0 /\ row.Returning.m >= 0 /\ row.Total.m >= 0
                  /\ row.New.m + row.Returning.m = row.Total.m


(***************************************************************************)
(* Properties of the KPI cards and the user categorization of page 3       *)
(* (SpecTokenMonitoring)                                                   *)
(***************************************************************************)

\* kpi3.metric("Unique Users (period)", period_agg['unique_users'].sum())
kpi_unique_users(agg) == SumOver(agg, "unique_users")

\* C27: the unique-users KPI is the number of distinct sender addresses among
\* all normalized rows: a sender active in several periods is counted once.
C27_UniqueUsersKpiCountsEachSenderOnce ==
    pc \in {"kpis", "done"} =>
        kpi_unique_users(period_agg) = AggNUnique(df, "sourceAddress")


\* pd.cut(x, bins=edges + [inf], labels=labels): the label of the interval
\* (edges[i], edges[i+1]] that holds x, the last one being (edges[n], inf);
\* NaN for a value that no interval holds
cut(x, edges, labels) ==
    LET holds(i) == /\ edges[i] < x
                    /\ (i < Len(edges) => x <= edges[i + 1])
    IN  IF \E i \in 1..Len(edges) : holds(i)
        THEN labels[CHOOSE i \in 1..Len(edges) : holds(i)]
        ELSE "NaN"

TxLabels == <<"1 Tx", "2-5 Tx", "6-10 Tx", "11-20 Tx", "21-50 Tx", "51-100 Tx", ">100 Tx">>

VolLabels == <<"< $1", "$1-$10", "$10-$100", "$100-$1k", "$1k-$10k", "> $10k">>

\* user_group["tx_bucket"] = pd.cut(user_group["tx_count"], bins=[0,1,5,10,20,50,100,inf], ...)
tx_bucket(tx_count) == cut(tx_count, <<0, 1, 5, 10, 20, 50, 100>>, TxLabels)

\* user_group["vol_bucket"] = pd.cut(user_group["volume"].fillna(0), bins=[0,1,10,100,1000,10000,inf], ...)
vol_bucket(volume) == cut(volume, <<0, 1, 10, 100, 1000, 10000>>, VolLabels)

\* C29: every user of the per-user table gets one labelled transaction-count
\* bucket and one labelled volume bucket (none falls outside the labels, a
\* user without volume included), and a "< $1" user has less than a dollar.
C29_EveryUserHasOneLabelledBucket ==
    pc \in {"kpis", "done"} =>
        \A u \in user_group :
            /\ \E i \in 1..Len(TxLabels) : tx_bucket(u.tx_count) = TxLabels[i]
            /\ \E i \in 1..Len(VolLabels) : vol_bucket(u.volume) = VolLabels[i]
            /\ vol_bucket(u.volume) = "< $1" => u.volume < 1


(***************************************************************************)
(* Properties of the ITS tokens table (SpecTokens)                         *)
(***************************************************************************)

\* a chart lists at most TopN symbols, none of them "Unknown", in descending
\* order of the metric, and no symbol it leaves out ranks above one it lists
IsTopChart(chart, col) ==
    /\ Len(chart) <= TopN
    /\ \A i \in 1..Len(chart) : chart[i].Symbol # "Unknown"
    /\ \A i \in 1..(Len(chart) - 1) : chart[i][col] >= chart[i + 1][col]
    /\ \A g \in df_grouped(df_tokens) :
          (\A i \in 1..Len(chart) : chart[i].Symbol # g.Symbol) =>
              \A i \in 1..Len(chart) : g[col] <= chart[i][col]

\* C30: each token address has the symbol of an asset that lists it, compared
\* without regard to case, or "Unknown" when no asset lists it; each of the two
\* charts is a top-10 of the symbols other than "Unknown".
C30_SymbolsAndTopCharts ==
    pc = "done" /\ df_tokens # <<>> =>
        /\ \A i \in 1..Len(df_tokens) :
              LET listing == { a \in 1..Len(assets_data) :
                                 \E j \in 1..Len(assets_data[a].addresses) :
                                     Lower(assets_data[a].addresses[j]) =
                                         Lower(df_tokens[i].TokenAddress) }
              IN  IF listing = {} THEN df_tokens[i].Symbol = "Unknown"
                  ELSE \E a \in listing : df_tokens[i].Symbol = assets_data[a].symbol
        /\ IsTopChart(top_volume, "VolumeOfTransfers")
        /\ IsTopChart(top_transfers, "NumberOfTransfers")

=============================================================================
